---------------------------- MODULE Spec2Model ----------------------------
(***************************************************************************)
(* A state-machine model of the a2amarketplace agent back end:              *)
(*   - the task managers' on_send_task (orchestrator, IoT, prebooking),     *)
(*   - PaymentAgent.buy_carbon_credits and the marketplace purchase_credits,*)
(*   - PrebookingAgent.create_prebooking / approve_prebooking.              *)
(*   - OrchestratorAgent: the connector registry and _delegate_task,        *)
(*   - CarbonCreditAgent._calculate_best_deal,                              *)
(*   - _validate_address_format and PaymentAgent.transfer_hbar,             *)
(*   - IoTCarbonAgent._process_sensor_data,                                 *)
(*   - PrebookingAgent._process_payment,                                    *)
(*   - the session lookup of the agents' invoke,                            *)
(*   - IoTCarbonAgent.get_live_sensor_data beside the MQTT thread.          *)
(* Each part has its own specification (SpecTask, SpecBuy, SpecPrebook,     *)
(* ...); the variables of the other parts stay at their initial values.     *)
(***************************************************************************)
EXTENDS Integers, Sequences, FiniteSets, TLC

VARIABLES
    kind,      \* which task manager this agent process runs
    tasks,     \* InMemoryTaskManager.tasks: task id -> [status, history]
    lock,      \* InMemoryTaskManager.lock: 0 when free, else the holding handler
    pc,        \* position of each on_send_task coroutine
    req,       \* request.params of each on_send_task coroutine
    reply,     \* the reply text a handler is about to append
    credit,    \* table company_credit: company id -> [current, sold]
    purchases, \* table credit_purchase: the rows inserted
    transfers, \* transfers the payment provider has executed
    bpc,       \* position of each buy_carbon_credits / purchase_credits call
    barg,      \* its arguments and locals
    bres,      \* what it returned
    now,         \* the wall clock, in seconds
    records,     \* the PrebookingRecord objects created so far
    prebookings, \* PrebookingAgent.prebookings: id -> record object
    calls,       \* per record object: the coroutines suspended in
                 \* _process_payment for it, and the payment calls made for it
    last,        \* what the call that returned last returned
    sstate,    \* tool_context.state["session_id"] of each orchestrator session
    uuids,     \* the number of uuid4 values generated so far
    dpc,       \* position of each _delegate_task call
    darg,      \* its arguments and the session id it read
    dres,      \* what it returned or raised
    child,     \* the history of the Task send_task returned to it
    sent,      \* the (message, session id) pairs the connectors were given
    offers,    \* the offers given to _calculate_best_deal
    requested, \* its requested_credits
    dealpc,    \* whether it has been called
    deal,      \* the dictionary it returned
    address,   \* the address given to _validate_address_format, or the
               \* destination_account given to transfer_hbar
    network,   \* the network name given with it
    valid,     \* what each agent's _validate_address_format returned
    tpc,       \* position of the transfer_hbar call
    tres,      \* what transfer_hbar returned
    submitted, \* the destinations of the transfers given to the Hedera client
    device_data,     \* IoTCarbonAgent.device_data: device_mac -> latest data
    recent_readings, \* IoTCarbonAgent.recent_readings, a deque(maxlen=100)
    arrivals,        \* every sensor reading stored so far, in arrival order
    arrived,         \* the number of MQTT messages handled so far
    agent_cards, \* the AgentCard list given to OrchestratorAgent.__init__
    connectors,  \* OrchestratorAgent.connectors, in insertion order
    listed,      \* what _list_agents returned
    routed,      \* the connector _delegate_task picked for a name
    response,  \* what the payment agent answers to _process_payment's POST
    payres,    \* what _process_payment returned
    sessions,  \* the session service's store: session id -> state, if any
    created,   \* the number of create_session calls made for each session id
    ipc,       \* position of each invoke coroutine
    iarg,      \* its session id and what its get_session returned
    lpc,       \* position of the get_live_sensor_data call
    live       \* its locals, and the dictionary it returns

taskVars == <<kind, tasks, lock, pc, req, reply>>

buyVars == <<credit, purchases, transfers, bpc, barg, bres>>

preVars == <<now, records, prebookings, calls, last>>

delVars == <<sstate, uuids, dpc, darg, dres, child, sent>>

dealVars == <<offers, requested, dealpc, deal>>

addrVars == <<address, network, valid, tpc, tres, submitted>>

iotVars == <<device_data, recent_readings, arrivals, arrived>>

regVars == <<agent_cards, connectors, listed, routed>>

payVars == <<response, payres>>

sessVars == <<sessions, created, ipc, iarg>>

liveVars == <<lpc, live>>

moreVars == <<sessVars, liveVars>>

vars == <<taskVars, buyVars, preVars, delVars, dealVars, addrVars, iotVars,
          regVars, payVars, moreVars>>

\* What the steps of one part leave alone: the variables of the other parts.
notTask == <<buyVars, preVars, delVars, dealVars, addrVars, iotVars, regVars,
            payVars, moreVars>>

notBuy == <<taskVars, preVars, delVars, dealVars, addrVars, iotVars, regVars,
           payVars, moreVars>>

notPre == <<taskVars, buyVars, delVars, dealVars, addrVars, iotVars, regVars,
           payVars, moreVars>>

notDel == <<taskVars, buyVars, preVars, dealVars, addrVars, iotVars, regVars,
           payVars, moreVars>>

notDeal == <<taskVars, buyVars, preVars, delVars, addrVars, iotVars, regVars,
            payVars, moreVars>>

coreVars == <<taskVars, buyVars, preVars, delVars, dealVars>>

notAddr == <<coreVars, iotVars, regVars, payVars, moreVars>>

notIot == <<coreVars, addrVars, regVars, payVars, moreVars>>

notReg == <<coreVars, addrVars, iotVars, payVars, moreVars>>

notPay == <<coreVars, addrVars, iotVars, regVars, moreVars>>

toolVars == <<addrVars, iotVars, regVars, payVars>>

notSess == <<coreVars, toolVars, liveVars>>

\* get_live_sensor_data only reads the IoT agent's variables
notLive == <<coreVars, toolVars, sessVars>>

--------------------------------------------------------------------------
(* Bounds *)

MaxHandlers == 2      \* concurrent on_send_task coroutines
MaxTaskIds == 2       \* distinct task ids a client may send

Handlers == 1..MaxHandlers
TaskIds == 1..MaxTaskIds
Managers == {"orchestrator", "iot", "prebooking"}
Errors == {"overloaded", "other"}

--------------------------------------------------------------------------
(* Task store: InMemoryTaskManager *)

UserMessage(text) == [role |-> "user", text |-> text]

AgentMessage(text) == [role |-> "agent", text |-> text]

NoTasks == [i \in {} |-> 0]

Put(f, k, v) == [x \in (DOMAIN f) \cup {k} |-> IF x = k THEN v ELSE f[x]]

\* The Task made for an id the store does not know: SUBMITTED, with the
\* request's user message as its history.
NewTask(p) == [status |-> "SUBMITTED", history |-> <<UserMessage(p.text)>>]

\* A bug a store could have: a known id is replaced by a fresh Task.
UpsertTaskOverwrite(ts, p) == Put(ts, p.id, NewTask(p))

\* upsert_task(params), as its call site describes it: "create a new Task if
\* it doesn't exist, or append the incoming user message to existing history".
UpsertTask(ts, p) ==
    IF p.id \in DOMAIN ts
    THEN Put(ts, p.id, [ts[p.id] EXCEPT !.history = Append(@, UserMessage(p.text))])
    ELSE Put(ts, p.id, NewTask(p))

\* async with self.lock: task.status = COMPLETED; task.history.append(reply)
CompleteTask(ts, id, text) ==
    Put(ts, id, [status |-> "COMPLETED",
                 history |-> Append(ts[id].history, AgentMessage(text))])

\* The lock's value when a handler leaves the upsert section and awaits invoke.
LockHeldAcrossInvoke(r) == r

\* upsert_task returns before agent.invoke is awaited: the lock is free.
LockAfterUpsert(r) == 0

\* What on_send_task does when agent.invoke raises e: the next position and the
\* reply text.  The orchestrator and IoT managers have no handler, so the
\* exception leaves on_send_task.  The prebooking manager catches it; for an
\* overload error it calls self.prebooking_agent._handle_gemini_error, which
\* PrebookingAgent does not define, so an AttributeError leaves the handler.
OnInvokeError(k, e) ==
    IF k = "prebooking" /\ e = "other"
    THEN [pc |-> "complete", reply |-> "error_text"]
    ELSE [pc |-> "raised", reply |-> "none"]

--------------------------------------------------------------------------
(* on_send_task, one coroutine per request *)

TaskInit ==
    /\ kind \in Managers
    /\ tasks = NoTasks
    /\ lock = 0
    /\ pc = [r \in Handlers |-> "idle"]
    /\ req = [r \in Handlers |-> [id |-> 0, text |-> 0, n |-> 0]]
    /\ reply = [r \in Handlers |-> "none"]

Received == {r \in Handlers : pc[r] # "idle"}

\* The text of the message a request carries: each request has its own.
UserText(r) == r

\* A request arrives; n is its place in the order of submission.
Receive(r) ==
    /\ pc[r] = "idle"
    /\ \E id \in TaskIds :
          req' = [req EXCEPT ![r] = [id |-> id, text |-> UserText(r),
                                     n |-> Cardinality(Received) + 1]]
    /\ pc' = [pc EXCEPT ![r] = "upsert"]
    /\ UNCHANGED <<kind, tasks, lock, reply, notTask>>

\* upsert_task: async with self.lock
UpsertAcquire(r) ==
    /\ pc[r] = "upsert"
    /\ lock = 0
    /\ lock' = r
    /\ pc' = [pc EXCEPT ![r] = "upsert_cs"]
    /\ UNCHANGED <<kind, tasks, req, reply, notTask>>

\* upsert_task: the body and the release; then agent.invoke is awaited
UpsertBody(r) ==
    /\ pc[r] = "upsert_cs"
    /\ tasks' = UpsertTask(tasks, req[r])
    /\ lock' = LockAfterUpsert(r)
    /\ pc' = [pc EXCEPT ![r] = "invoke"]
    /\ UNCHANGED <<kind, req, reply, notTask>>

\* Inside OrchestratorAgent.invoke the oracle asks for _delegate_task, which
\* awaits connector.send_task
DelegateCall(r) ==
    /\ kind = "orchestrator"
    /\ pc[r] = "invoke"
    /\ pc' = [pc EXCEPT ![r] = "delegate"]
    /\ UNCHANGED <<kind, tasks, lock, req, reply, notTask>>

DelegateReturn(r) ==
    /\ pc[r] = "delegate"
    /\ pc' = [pc EXCEPT ![r] = "invoke"]
    /\ UNCHANGED <<kind, tasks, lock, req, reply, notTask>>

\* agent.invoke returns the response text
InvokeReturn(r) ==
    /\ pc[r] = "invoke"
    /\ reply' = [reply EXCEPT ![r] = "answer"]
    /\ pc' = [pc EXCEPT ![r] = "complete"]
    /\ UNCHANGED <<kind, tasks, lock, req, notTask>>

\* agent.invoke raises
InvokeRaise(r) ==
    /\ pc[r] = "invoke"
    /\ \E e \in Errors :
          /\ reply' = [reply EXCEPT ![r] = OnInvokeError(kind, e).reply]
          /\ pc' = [pc EXCEPT ![r] = OnInvokeError(kind, e).pc]
    /\ UNCHANGED <<kind, tasks, lock, req, notTask>>

\* completion: async with self.lock
CompleteAcquire(r) ==
    /\ pc[r] = "complete"
    /\ lock = 0
    /\ lock' = r
    /\ pc' = [pc EXCEPT ![r] = "complete_cs"]
    /\ UNCHANGED <<kind, tasks, req, reply, notTask>>

\* completion: status and history are set with no suspension between them,
\* the lock is released, the response is returned
CompleteBody(r) ==
    /\ pc[r] = "complete_cs"
    /\ tasks' = CompleteTask(tasks, req[r].id, reply[r])
    /\ lock' = 0
    /\ pc' = [pc EXCEPT ![r] = "returned"]
    /\ UNCHANGED <<kind, req, reply, notTask>>

TaskNext ==
    \E r \in Handlers :
        \/ Receive(r)
        \/ UpsertAcquire(r)
        \/ UpsertBody(r)
        \/ DelegateCall(r)
        \/ DelegateReturn(r)
        \/ InvokeReturn(r)
        \/ InvokeRaise(r)
        \/ CompleteAcquire(r)
        \/ CompleteBody(r)

\* The task store before any request, for the specifications of other parts.
TaskIdle ==
    /\ kind = "orchestrator"
    /\ tasks = NoTasks
    /\ lock = 0
    /\ pc = [r \in Handlers |-> "idle"]
    /\ req = [r \in Handlers |-> [id |-> 0, text |-> 0, n |-> 0]]
    /\ reply = [r \in Handlers |-> "none"]

--------------------------------------------------------------------------
(* The marketplace store and PaymentAgent.buy_carbon_credits *)

MaxBuyers == 2        \* concurrent calls
InitCredit == 3       \* current_credit of the company before the calls
MaxAmount == 2        \* largest number of credits one call asks for

Buyers == 1..MaxBuyers
Amounts == 1..MaxAmount
Company == 1                      \* the one seeded company, "Acme"
UnknownCompany == 9               \* a company id with no company_credit row
CompanyNames == {"", "Acme", "Nobody"}

\* A transaction identifier as the store and the results hold it: none, the
\* str(response.transaction_id) of a transfer, or a memo string
NoTx == [kind |-> "none", of |-> 0, credits |-> 0]

HederaTxId(b) == [kind |-> "hedera", of |-> b, credits |-> 0]

\* memo = f"Carbon credits purchase company={comp_id} credits={amount}"
Memo(comp_id, amount) == [kind |-> "memo", of |-> comp_id, credits |-> amount]

\* Step 1 of buy_carbon_credits: the rows the three ILIKE/fuzzy queries leave.
\* An empty name picks the cheapest company, a matching name that company,
\* a name that nothing resembles no row.
ResolveCompany(name) == IF name = "Nobody" THEN {} ELSE {Company}

\* _execute_hedera_transfer's success result: str(response.transaction_id)
PaymentSuccess(b) == [success |-> TRUE, transaction_id |-> HederaTxId(b)]

\* its failure results carry no transaction id
PaymentFailure == [success |-> FALSE, transaction_id |-> NoTx]

NoPayment == [success |-> FALSE, transaction_id |-> NoTx]

\* The dictionaries buy_carbon_credits returns; transaction_id is NoTx where
\* the dictionary has no such key.
Failed(msg) == [status |-> "failed", message |-> msg, transaction_id |-> NoTx]

\* A bug the call could have: the transaction id is not passed on, and
\* payment_tx_id keeps its default.
PaymentTxIdDropped(pay, memo) == NoTx

\* A bug the call could have: the memo is used whatever the payment returned.
PaymentTxIdMemoOnly(pay, memo) == memo

\* payment_result.get("transaction_id", memo)
PaymentTxId(pay, memo) ==
    IF pay.transaction_id = NoTx THEN memo ELSE pay.transaction_id

Purchased(pay, memo) ==
    [status |-> "success", message |-> "Successfully purchased",
     transaction_id |-> PaymentTxId(pay, memo)]

\* The tuple purchase_credits returns to a direct caller
Returned(ok, msg) ==
    [status |-> IF ok THEN "True" ELSE "False", message |-> msg,
     transaction_id |-> NoTx]

NoResult == [status |-> "none", message |-> "none", transaction_id |-> NoTx]

BuyInit ==
    /\ credit = [c \in {Company} |-> [current |-> InitCredit, sold |-> 0]]
    /\ purchases = {}
    /\ transfers = {}
    /\ bpc = [b \in Buyers |-> "idle"]
    /\ barg = [b \in Buyers |->
                 [mode |-> "none", amount |-> 0, company |-> 0, seen |-> 0,
                  pay |-> NoPayment]]
    /\ bres = [b \in Buyers |-> NoResult]

\* A function that goes on to the payment although it found no company.
AfterResolveGoesOn(rows) == "pay"

\* if not rows: return {"status": "failed", ...}; else on to step 2
AfterResolve(rows) == IF rows = {} THEN "done" ELSE "pay"

\* buy_carbon_credits(amount, company_name) is called and step 1 returns
BuyCall(b) ==
    /\ bpc[b] = "idle"
    /\ \E a \in Amounts, name \in CompanyNames :
          LET rows == ResolveCompany(name)
          IN  /\ bpc' = [bpc EXCEPT ![b] = AfterResolve(rows)]
              /\ barg' = [barg EXCEPT
                             ![b].mode = "buy", ![b].amount = a,
                             ![b].company =
                                 IF rows = {} THEN 0
                                 ELSE CHOOSE c \in rows : TRUE]
              /\ bres' = IF rows = {}
                         THEN [bres EXCEPT ![b] = Failed("No company found")]
                         ELSE bres
    /\ UNCHANGED <<credit, purchases, transfers, notBuy>>

\* buy_carbon_credits: the marketplace read raises
BuyResolveRaises(b) ==
    /\ bpc[b] = "idle"
    /\ \E a \in Amounts :
          barg' = [barg EXCEPT ![b].mode = "buy", ![b].amount = a]
    /\ bpc' = [bpc EXCEPT ![b] = "done"]
    /\ bres' = [bres EXCEPT ![b] = Failed("Could not get company details")]
    /\ UNCHANGED <<credit, purchases, transfers, notBuy>>

\* step 2: _execute_hedera_transfer returns success: the funds have moved
PaySucceeds(b) ==
    /\ bpc[b] = "pay"
    /\ transfers' = transfers \cup {PaymentSuccess(b).transaction_id}
    /\ barg' = [barg EXCEPT ![b].pay = PaymentSuccess(b)]
    /\ bpc' = [bpc EXCEPT ![b] = "select"]
    /\ UNCHANGED <<credit, purchases, bres, notBuy>>

\* step 2: _execute_hedera_transfer returns a failure
PayFails(b) ==
    /\ bpc[b] = "pay"
    /\ barg' = [barg EXCEPT ![b].pay = PaymentFailure]
    /\ bpc' = [bpc EXCEPT ![b] = "done"]
    /\ bres' = [bres EXCEPT ![b] = Failed("Payment failed")]
    /\ UNCHANGED <<credit, purchases, transfers, notBuy>>

\* purchase_credits(company_id, user_account, amount) is called directly
PurchaseCall(b) ==
    /\ bpc[b] = "idle"
    /\ \E a \in Amounts, c \in {Company, UnknownCompany} :
          barg' = [barg EXCEPT ![b].mode = "direct", ![b].amount = a,
                               ![b].company = c]
    /\ bpc' = [bpc EXCEPT ![b] = "select"]
    /\ UNCHANGED <<credit, purchases, transfers, bres, notBuy>>

\* A bug the credit test could have: any amount passes.
InsufficientCreditNever(current, amount) == FALSE

\* if current_credit < amount
InsufficientCredit(current, amount) == current < amount

\* payment_tx_id as purchase_credits gets it: buy_carbon_credits passes
\* payment_result.get("transaction_id", memo), a direct caller passes none
PaymentTxIdArg(b) ==
    IF barg[b].mode = "buy"
    THEN PaymentTxId(barg[b].pay, Memo(barg[b].company, barg[b].amount))
    ELSE NoTx

\* A failure of purchase_credits passed on as purchase_credits states it.
PurchaseFailurePassedOn(b, msg) == Returned(FALSE, msg)

\* How a purchase_credits failure reaches the caller
PurchaseFailure(b, msg) ==
    IF barg[b].mode = "buy"
    THEN Failed("Database recording failed")
    ELSE Returned(FALSE, msg)

\* purchase_credits: SELECT current_credit ... FOR UPDATE and the two checks.
\* The connection is in autocommit mode, so the statement is a transaction of
\* its own and its row lock is gone when it returns.
PurchaseSelect(b) ==
    /\ bpc[b] = "select"
    /\ IF barg[b].company \notin DOMAIN credit
       THEN /\ bpc' = [bpc EXCEPT ![b] = "done"]
            /\ bres' = [bres EXCEPT ![b] =
                          PurchaseFailure(b, "Company credit not found")]
            /\ barg' = barg
       ELSE IF InsufficientCredit(credit[barg[b].company].current, barg[b].amount)
       THEN /\ bpc' = [bpc EXCEPT ![b] = "done"]
            /\ bres' = [bres EXCEPT ![b] =
                          PurchaseFailure(b, "Insufficient company credit")]
            /\ barg' = [barg EXCEPT ![b].seen = credit[barg[b].company].current]
       ELSE /\ bpc' = [bpc EXCEPT ![b] = "update"]
            /\ bres' = bres
            /\ barg' = [barg EXCEPT ![b].seen = credit[barg[b].company].current]
    /\ UNCHANGED <<credit, purchases, transfers, notBuy>>

\* An UPDATE that takes the credits and does not book them as sold.
MoveCreditsTakenOnly(row, amount) == [row EXCEPT !.current = @ - amount]

\* SET current_credit = current_credit - amount,
\*     sold_credit = sold_credit + amount
MoveCredits(row, amount) ==
    [row EXCEPT !.current = @ - amount, !.sold = @ + amount]

\* purchase_credits: UPDATE company_credit ... WHERE company_id = company_id
PurchaseUpdate(b) ==
    /\ bpc[b] = "update"
    /\ credit' = [credit EXCEPT
                    ![barg[b].company] = MoveCredits(@, barg[b].amount)]
    /\ bpc' = [bpc EXCEPT ![b] = "insert"]
    /\ UNCHANGED <<purchases, transfers, barg, bres, notBuy>>

\* purchase_credits: INSERT INTO credit_purchase, then return True
PurchaseInsert(b) ==
    /\ bpc[b] = "insert"
    /\ purchases' = purchases \cup
          {[by |-> b, company |-> barg[b].company, amount |-> barg[b].amount,
            payment_tx_id |-> PaymentTxIdArg(b)]}
    /\ bpc' = [bpc EXCEPT ![b] = "done"]
    /\ bres' = [bres EXCEPT ![b] =
                  IF barg[b].mode = "buy"
                  THEN Purchased(barg[b].pay,
                                 Memo(barg[b].company, barg[b].amount))
                  ELSE Returned(TRUE, "Purchase recorded")]
    /\ UNCHANGED <<credit, transfers, barg, notBuy>>

\* purchase_credits: the connection or a statement raises.  buy_carbon_credits
\* catches the exception; a direct caller sees it.
PurchaseRaises(b) ==
    /\ bpc[b] \in {"select", "update", "insert"}
    /\ bpc' = [bpc EXCEPT ![b] = "done"]
    /\ bres' = [bres EXCEPT ![b] =
                  IF barg[b].mode = "buy"
                  THEN Failed("Database recording failed")
                  ELSE [status |-> "raised", message |-> "exception",
                        transaction_id |-> NoTx]]
    /\ UNCHANGED <<credit, purchases, transfers, barg, notBuy>>

BuyNext ==
    \E b \in Buyers :
        \/ BuyCall(b)
        \/ BuyResolveRaises(b)
        \/ PaySucceeds(b)
        \/ PayFails(b)
        \/ PurchaseCall(b)
        \/ PurchaseSelect(b)
        \/ PurchaseUpdate(b)
        \/ PurchaseInsert(b)
        \/ PurchaseRaises(b)

--------------------------------------------------------------------------
(* PrebookingAgent: create_prebooking and approve_prebooking *)

MaxCallers == 2       \* coroutines suspended in _process_payment at once
MaxBookings == 2      \* create_prebooking calls that store a record
MaxClock == 1         \* the last second in which a record is made

AutoApprovalThreshold == 300      \* dollars
DiscountPercent == 5              \* prepayment_discount_rate = 0.05
BasePricePerCredit == 10          \* dollars

Companies == {"Acme"}
UnregisteredCompanies == {"Nobody"}

\* What _check_company_exists gets from the IoT agent: the list of the
\* registered companies, or no usable answer (an error status, a reply that
\* does not parse, an exception)
CheckAnswers == {"listed", "unavailable"}

\* A check that confirms every company.
CompanyExistsAlways(co, answer) == TRUE

\* company_check["exists"]
CompanyExists(co, answer) == answer = "listed" /\ co \in Companies

\* company_check["message"]
CompanyCheckMessage(answer) ==
    IF answer = "listed" THEN "company not registered"
    ELSE "unable to check company registration"

\* A test that takes every status for pending.
PendingApprovalAny(status) == TRUE

\* prebooking.status == "pending_approval"
PendingApproval(status) == status = "pending_approval"

\* predicted_credits, as fractions num/den: 5, 600/19 and 70 credits.
\* 600/19 credits is the input whose prepayment the code computes as 300.0.
CreditInputs ==
    {[num |-> 5, den |-> 1], [num |-> 600, den |-> 19], [num |-> 70, den |-> 1]}

\* prepayment_amount = predicted_credits * base_price * (1 - discount), in cents
PrepaymentCents(cr) ==
    (cr.num * BasePricePerCredit * (100 - DiscountPercent)) \div cr.den

\* Bugs the threshold test could have.
UnderThresholdInclusive(cents) == cents <= AutoApprovalThreshold * 100

UnderThresholdAlways(cents) == TRUE

\* if prepayment_amount < self.auto_approval_threshold
UnderThreshold(cents) == cents < AutoApprovalThreshold * 100

\* prebooking_id = pb_<YYYYmmdd_HHMMSS>_<company>
PrebookingId(t, company) == [t |-> t, company |-> company]

BookingIds == {PrebookingId(t, c) : t \in 0..MaxClock, c \in Companies}

NewRecord(id, cents, status) == [id |-> id, prepayment |-> cents, status |-> status]

\* The coroutines suspended in _process_payment for a record, by the function
\* that called it, and the number of _process_payment calls made for it.
NoCalls == [auto |-> 0, approve |-> 0, payments |-> 0]

RECURSIVE SumAwaiting(_, _)
SumAwaiting(cs, i) ==
    IF i = 0 THEN 0 ELSE cs[i].auto + cs[i].approve + SumAwaiting(cs, i - 1)

Awaiting == SumAwaiting(calls, Len(calls))

\* The dictionaries the calls return
Outcome(op, success, status, error) ==
    [op |-> op, success |-> success, status |-> status, error |-> error]

NoOutcome == Outcome("none", FALSE, "none", "none")

PreInit ==
    /\ now = 0
    /\ records = <<>>
    /\ prebookings = [i \in {} |-> 0]
    /\ calls = <<>>
    /\ last = NoOutcome

\* datetime.now() moves on to another second.  The clock is read only to name
\* a new record, so only the seconds in which a record is made are counted.
Tick ==
    /\ now < MaxClock
    /\ records # <<>>
    /\ records[Len(records)].id.t = now
    /\ now' = now + 1
    /\ UNCHANGED <<records, prebookings, calls, last, notPre>>

\* create_prebooking(company_name, predicted_credits) awaits
\* _check_company_exists before it reads or writes anything of the agent, so
\* the call and the check's answer are one step here.
\* The company check does not confirm the company: create_prebooking returns.
CreateRejected ==
    /\ \E co \in Companies \cup UnregisteredCompanies, answer \in CheckAnswers :
          /\ ~CompanyExists(co, answer)
          /\ last' = Outcome("create", FALSE, "none",
                             CompanyCheckMessage(answer))
    /\ UNCHANGED <<now, records, prebookings, calls, notPre>>

\* the company is registered and the prepayment is under the threshold:
\* _process_auto_approval stores a confirmed record and awaits _process_payment
CreateAutoApproved ==
    /\ Len(records) < MaxBookings
    /\ Awaiting < MaxCallers
    /\ \E co \in Companies \cup UnregisteredCompanies, cr \in CreditInputs :
          /\ \E answer \in CheckAnswers : CompanyExists(co, answer)
          /\ UnderThreshold(PrepaymentCents(cr))
          /\ records' = Append(records,
                 NewRecord(PrebookingId(now, co), PrepaymentCents(cr), "confirmed"))
          /\ prebookings' = Put(prebookings, PrebookingId(now, co), Len(records) + 1)
    /\ calls' = Append(calls, [NoCalls EXCEPT !.auto = 1, !.payments = 1])
    /\ UNCHANGED <<now, last, notPre>>

\* the company is registered and the prepayment is not under the threshold:
\* _request_user_approval stores a pending_approval record and returns
CreatePending ==
    /\ Len(records) < MaxBookings
    /\ \E co \in Companies \cup UnregisteredCompanies, cr \in CreditInputs :
          /\ \E answer \in CheckAnswers : CompanyExists(co, answer)
          /\ ~UnderThreshold(PrepaymentCents(cr))
          /\ records' = Append(records,
                 NewRecord(PrebookingId(now, co), PrepaymentCents(cr),
                           "pending_approval"))
          /\ prebookings' = Put(prebookings, PrebookingId(now, co), Len(records) + 1)
          /\ last' = Outcome("create", TRUE,
                             "pending_approval", "none")
    /\ calls' = Append(calls, NoCalls)
    /\ UNCHANGED <<now, notPre>>

\* _process_auto_approval: _process_payment reports success
AutoPaySucceeds(i) ==
    /\ calls[i].auto > 0
    /\ calls' = [calls EXCEPT ![i].auto = @ - 1]
    /\ last' = Outcome("create", TRUE, "auto_approved", "none")
    /\ UNCHANGED <<now, records, prebookings, notPre>>

\* _process_auto_approval: _process_payment reports failure; the record is
\* marked payment_failed and stored again under its id
AutoPayFails(i) ==
    /\ calls[i].auto > 0
    /\ calls' = [calls EXCEPT ![i].auto = @ - 1]
    /\ records' = [records EXCEPT ![i].status = "payment_failed"]
    /\ prebookings' = Put(prebookings, records[i].id, i)
    /\ last' = Outcome("create", FALSE, "payment_failed",
                       "Payment processing failed")
    /\ UNCHANGED <<now, notPre>>

\* approve_prebooking(prebooking_id): the id is not stored
ApproveNotFound ==
    /\ \E id \in BookingIds :
          /\ id \notin DOMAIN prebookings
          /\ last' = Outcome("approve", FALSE, "none", "Prebooking not found")
    /\ UNCHANGED <<now, records, prebookings, calls, notPre>>

\* approve_prebooking(prebooking_id): the record is not pending approval
ApproveNotPending ==
    /\ \E id \in DOMAIN prebookings :
          /\ ~PendingApproval(records[prebookings[id]].status)
          /\ last' = Outcome("approve", FALSE, "none",
                             "Prebooking not pending approval")
    /\ UNCHANGED <<now, records, prebookings, calls, notPre>>

\* approve_prebooking(prebooking_id): the record is pending approval, and
\* _process_payment is awaited
ApproveCall ==
    /\ Awaiting < MaxCallers
    /\ \E id \in DOMAIN prebookings :
          /\ PendingApproval(records[prebookings[id]].status)
          /\ calls' = [calls EXCEPT ![prebookings[id]].approve = @ + 1,
                                    ![prebookings[id]].payments = @ + 1]
    /\ UNCHANGED <<now, records, prebookings, last, notPre>>

\* approve_prebooking: _process_payment reports success
ApprovePaySucceeds(i) ==
    /\ calls[i].approve > 0
    /\ calls' = [calls EXCEPT ![i].approve = @ - 1]
    /\ records' = [records EXCEPT ![i].status = "confirmed"]
    /\ last' = Outcome("approve", TRUE, "confirmed", "none")
    /\ UNCHANGED <<now, prebookings, notPre>>

\* approve_prebooking: _process_payment reports failure; the record is marked
\* payment_failed and stored again under its id
ApprovePayFails(i) ==
    /\ calls[i].approve > 0
    /\ calls' = [calls EXCEPT ![i].approve = @ - 1]
    /\ records' = [records EXCEPT ![i].status = "payment_failed"]
    /\ prebookings' = Put(prebookings, records[i].id, i)
    /\ last' = Outcome("approve", FALSE, "payment_failed",
                       "Payment processing failed")
    /\ UNCHANGED <<now, notPre>>

PreNext ==
    \/ Tick
    \/ CreateRejected
    \/ CreateAutoApproved
    \/ CreatePending
    \/ ApproveNotFound
    \/ ApproveNotPending
    \/ ApproveCall
    \/ \E i \in 1..Len(records) : AutoPaySucceeds(i)
    \/ \E i \in 1..Len(records) : AutoPayFails(i)
    \/ \E i \in 1..Len(records) : ApprovePaySucceeds(i)
    \/ \E i \in 1..Len(records) : ApprovePayFails(i)

--------------------------------------------------------------------------
(* OrchestratorAgent._delegate_task *)

MaxDelegations == 2   \* _delegate_task calls the oracle asks for
MaxSessions == 2      \* orchestrator sessions

Delegations == 1..MaxDelegations
Sessions == 1..MaxSessions
NoSessionId == 0

\* self.connectors: the names of the discovered agent cards
Connectors == {"PaymentAgent", "CarbonCreditAgent"}

\* Names the oracle may pass to _delegate_task
AgentNames == Connectors \cup {"GhostAgent"}

\* A bug the session step could have: a new id for every call.
EnsureSessionIdFresh(stored, fresh) == fresh

\* if "session_id" not in state: state["session_id"] = str(uuid.uuid4())
\* session_id = state["session_id"]
EnsureSessionId(stored, fresh) == IF stored = NoSessionId THEN fresh ELSE stored

\* What a _delegate_task call hands to its caller
TextResult(text) == [kind |-> "text", value |-> text]

RaisedResult(error) == [kind |-> "raised", value |-> error]

NoDelegateResult == [kind |-> "none", value |-> "none"]

\* child_task.history: None, or a list of the texts of its messages
NoHistory == [given |-> FALSE, entries |-> <<>>]

History(entries) == [given |-> TRUE, entries |-> entries]

\* The histories a child may answer with: none, an empty one, the delegated
\* user message alone, and the message followed by the child's messages
ChildHistories ==
    {NoHistory, History(<<>>), History(<<"message">>),
     History(<<"message", "reply">>), History(<<"message", "">>),
     History(<<"message", "working", "reply">>)}

\* A bug the call could have: the last entry is returned whenever there is
\* one.
DelegateReplyLastEntry(h) ==
    IF h.given /\ Len(h.entries) > 0 THEN h.entries[Len(h.entries)] ELSE ""

\* if child_task.history and len(child_task.history) > 1:
\*     return child_task.history[-1].parts[0].text
\* return ""
DelegateReply(h) ==
    IF h.given /\ Len(h.entries) > 1 THEN h.entries[Len(h.entries)] ELSE ""

DelInit ==
    /\ sstate = [s \in Sessions |-> NoSessionId]
    /\ uuids = 0
    /\ dpc = [d \in Delegations |-> "idle"]
    /\ darg = [d \in Delegations |->
                 [session |-> 0, agent |-> "none", session_id |-> NoSessionId]]
    /\ dres = [d \in Delegations |-> NoDelegateResult]
    /\ child = [d \in Delegations |-> NoHistory]
    /\ sent = {}

\* _delegate_task(agent_name, ...) with a name that is not in self.connectors
DelegateUnknownAgent(d) ==
    /\ dpc[d] = "idle"
    /\ \E s \in Sessions, a \in AgentNames \ Connectors :
          darg' = [darg EXCEPT ![d].session = s, ![d].agent = a]
    /\ dpc' = [dpc EXCEPT ![d] = "raised"]
    /\ dres' = [dres EXCEPT ![d] = RaisedResult("ValueError")]
    /\ UNCHANGED <<sstate, uuids, child, sent, notDel>>

\* _delegate_task with a registered name: the session id is read from, or
\* put into, the session state, and connector.send_task is awaited.  Nothing
\* is awaited between the test and the assignment.
DelegateTask(d) ==
    /\ dpc[d] = "idle"
    /\ \E s \in Sessions, a \in Connectors :
          LET sid == EnsureSessionId(sstate[s], uuids + 1)
          IN /\ sstate' = [sstate EXCEPT ![s] = sid]
             /\ uuids' = IF sid = uuids + 1 THEN uuids + 1 ELSE uuids
             /\ darg' = [darg EXCEPT ![d] =
                           [session |-> s, agent |-> a, session_id |-> sid]]
             /\ sent' = sent \cup {[call |-> d, agent |-> a, session_id |-> sid]}
    /\ dpc' = [dpc EXCEPT ![d] = "sending"]
    /\ UNCHANGED <<dres, child, notDel>>

\* send_task returns a Task whose history has more than one entry
SendTaskReturns(d) ==
    /\ dpc[d] = "sending"
    /\ dpc' = [dpc EXCEPT ![d] = "returned"]
    /\ \E h \in {x \in ChildHistories : Len(x.entries) > 1} :
          /\ child' = [child EXCEPT ![d] = h]
          /\ dres' = [dres EXCEPT ![d] = TextResult(DelegateReply(h))]
    /\ UNCHANGED <<sstate, uuids, darg, sent, notDel>>

\* send_task returns a Task with no history, or with a history of at most
\* the delegated message
SendTaskEmpty(d) ==
    /\ dpc[d] = "sending"
    /\ dpc' = [dpc EXCEPT ![d] = "returned"]
    /\ \E h \in {x \in ChildHistories : Len(x.entries) <= 1} :
          /\ child' = [child EXCEPT ![d] = h]
          /\ dres' = [dres EXCEPT ![d] = TextResult(DelegateReply(h))]
    /\ UNCHANGED <<sstate, uuids, darg, sent, notDel>>

\* send_task fails (network failure, non-2xx answer, malformed response) and
\* raises; _delegate_task has no handler around the call
SendTaskFails(d) ==
    /\ dpc[d] = "sending"
    /\ dpc' = [dpc EXCEPT ![d] = "raised"]
    /\ dres' = [dres EXCEPT ![d] = RaisedResult("send_task failed")]
    /\ UNCHANGED <<sstate, uuids, darg, child, sent, notDel>>

DelNext ==
    \E d \in Delegations :
        \/ DelegateUnknownAgent(d)
        \/ DelegateTask(d)
        \/ SendTaskReturns(d)
        \/ SendTaskEmpty(d)
        \/ SendTaskFails(d)

--------------------------------------------------------------------------
(* CarbonCreditAgent._calculate_best_deal *)

MaxOffers == 2        \* offers in the list given to _calculate_best_deal

NoPrice == 0                      \* offer_price is None
OfferPrices == {NoPrice, 10, 12}
OfferCredits == {0, 40, 100}      \* current_credit
RequestedCredits == {0, 50, 60, 200}

Offer(price, qty) == [offer_price |-> price, current_credit |-> qty]

OfferLists ==
    UNION {[1..n -> {Offer(p, c) : p \in OfferPrices, c \in OfferCredits}] :
             n \in 0..MaxOffers}

Min(a, b) == IF a <= b THEN a ELSE b

\* [offer for offer in offers if offer['offer_price'] is not None]
PricedOffers(offs) == SelectSeq(offs, LAMBDA o : o.offer_price # NoPrice)

\* sorted(..., key=offer_price): ascending, and offers of one price keep the
\* order they came in
RECURSIVE InsertByPrice(_, _)
InsertByPrice(sorted, o) ==
    IF sorted = <<>> THEN <<o>>
    ELSE IF sorted[Len(sorted)].offer_price <= o.offer_price
    THEN Append(sorted, o)
    ELSE Append(InsertByPrice(SubSeq(sorted, 1, Len(sorted) - 1), o),
                sorted[Len(sorted)])

\* A bug the allocator could have: the offers are taken in the order given.
SortByPriceMissing(offs) == offs

RECURSIVE SortByPrice(_)
SortByPrice(offs) ==
    IF offs = <<>> THEN <<>>
    ELSE InsertByPrice(SortByPrice(SubSeq(offs, 1, Len(offs) - 1)),
                       offs[Len(offs)])

NoAllocation == [best_offers |-> <<>>, total_credits_found |-> 0, total_cost |-> 0]

\* The loop over sorted_offers, from offer i on, with remaining_credits left
RECURSIVE Allocate(_, _, _, _)
Allocate(sorted, i, remaining, acc) ==
    IF i > Len(sorted) \/ remaining <= 0 THEN acc
    ELSE LET credits_to_take == Min(remaining, sorted[i].current_credit)
         IN IF credits_to_take > 0
            THEN Allocate(sorted, i + 1, remaining - credits_to_take,
                   [best_offers |-> Append(acc.best_offers,
                        [offer_price |-> sorted[i].offer_price,
                         current_credit |-> sorted[i].current_credit,
                         credits_to_purchase |-> credits_to_take,
                         total_cost |-> credits_to_take * sorted[i].offer_price]),
                    total_credits_found |-> acc.total_credits_found + credits_to_take,
                    total_cost |-> acc.total_cost
                                     + credits_to_take * sorted[i].offer_price])
            ELSE Allocate(sorted, i + 1, remaining, acc)

\* A status that asks for the whole request.
DealStatusWholeRequest(found, wanted) ==
    IF found >= wanted THEN "success" ELSE "partial"

\* "success" if total_credits_found >= requested_credits * 0.8 else "partial"
DealStatus(found, wanted) == IF found * 10 >= wanted * 8 THEN "success" ELSE "partial"

\* The dictionary _calculate_best_deal returns.  With no offers at all it
\* returns a "failed" dictionary without best_offers and total_cost, shown
\* here as an empty allocation.
CalculateBestDeal(offs, wanted) ==
    IF offs = <<>>
    THEN [status |-> "failed", requested_credits |-> wanted,
          best_offers |-> <<>>, total_credits_found |-> 0, total_cost |-> 0]
    ELSE LET a == Allocate(SortByPrice(PricedOffers(offs)), 1, wanted, NoAllocation)
         IN [status |-> DealStatus(a.total_credits_found, wanted),
             requested_credits |-> wanted,
             best_offers |-> a.best_offers,
             total_credits_found |-> a.total_credits_found,
             total_cost |-> a.total_cost]

NoDeal ==
    [status |-> "none", requested_credits |-> 0, best_offers |-> <<>>,
     total_credits_found |-> 0, total_cost |-> 0]

\* Before any call, for the specifications of other parts
DealIdle ==
    /\ offers = <<>>
    /\ requested = 0
    /\ dealpc = "idle"
    /\ deal = NoDeal

DealInit ==
    /\ offers \in OfferLists
    /\ requested \in RequestedCredits
    /\ dealpc = "idle"
    /\ deal = NoDeal

\* _calculate_best_deal(offers, requested_credits) with an empty list
DealNoOffers ==
    /\ dealpc = "idle"
    /\ offers = <<>>
    /\ deal' = CalculateBestDeal(offers, requested)
    /\ dealpc' = "done"
    /\ UNCHANGED <<offers, requested, notDeal>>

\* _calculate_best_deal(offers, requested_credits) with offers
DealAllocates ==
    /\ dealpc = "idle"
    /\ offers # <<>>
    /\ deal' = CalculateBestDeal(offers, requested)
    /\ dealpc' = "done"
    /\ UNCHANGED <<offers, requested, notDeal>>

DealNext ==
    \/ DealNoOffers
    \/ DealAllocates

--------------------------------------------------------------------------
(* _validate_address_format of PaymentAgent and WalletBalanceAgent, and
   PaymentAgent.transfer_hbar *)

MaxAddressLen == 6    \* longest account-id string tried
HexLen == 40          \* the {40} of the Ethereum pattern

\* The characters the patterns tell apart: \d, [a-fA-F], a letter outside
\* both, the dot, the x of the prefix and the newline.
Digits == {"0", "7"}
HexChars == Digits \cup {"a", "F"}
Whitespace == {"\n"}
AccountChars == {"7", ".", "x", "\n"}

\* Every string of up to MaxAddressLen of these characters
AccountStrings == UNION {[1..n -> AccountChars] : n \in 0..MaxAddressLen}

\* "0x", "0X" or "x", then HexLen - 1 .. HexLen + 1 times one character, the
\* last of them possibly replaced by a letter that is no hex digit, then
\* nothing, one or two newlines, or such a letter
EthereumStrings ==
    {pre \o [i \in 1..n |-> IF spoiled /\ i = n THEN "g" ELSE c] \o post :
        pre \in {<<"0", "x">>, <<"0", "X">>, <<"x">>},
        c \in {"7", "a", "F", "g"},
        n \in (HexLen - 1)..(HexLen + 1),
        spoiled \in BOOLEAN,
        post \in {<<>>, <<"\n">>, <<"\n", "\n">>, <<"g">>}}

Networks == {"hedera", "HEDERA", "ethereum", "Polygon", "bitcoin", ""}

Agents == {"payment", "wallet"}

\* network.lower()
Lower(net) ==
    CASE net = "HEDERA" -> "hedera"
      [] net = "Polygon" -> "polygon"
      [] OTHER -> net

\* Where $ matches: at the end of the string, and just before a newline that
\* is its last character.
AtDollar(s, i) == i = Len(s) + 1 \/ (i = Len(s) /\ s[i] = "\n")

AllIn(s, from, to, class) == \A i \in from..to : s[i] \in class

\* re.match(r'^\d+\.\d+\.\d+$', address): the dots are at p and q and $
\* matches at e
MatchHedera(s) ==
    \E p \in 2..Len(s), q \in 4..Len(s), e \in 6..(Len(s) + 1) :
        /\ p + 1 < q
        /\ q + 1 < e
        /\ s[p] = "."
        /\ s[q] = "."
        /\ AllIn(s, 1, p - 1, Digits)
        /\ AllIn(s, p + 1, q - 1, Digits)
        /\ AllIn(s, q + 1, e - 1, Digits)
        /\ AtDollar(s, e)

\* re.match(r'^0x[a-fA-F0-9]{40}$', address)
MatchEthereum(s) ==
    /\ Len(s) >= HexLen + 2
    /\ s[1] = "0"
    /\ s[2] = "x"
    /\ AllIn(s, 3, HexLen + 2, HexChars)
    /\ AtDollar(s, HexLen + 3)

\* PaymentAgent._validate_address_format(address, network)
PaymentValidateAddressFormat(addr, net) ==
    IF Lower(net) = "hedera" THEN MatchHedera(addr)
    ELSE IF Lower(net) \in {"ethereum", "polygon"} THEN MatchEthereum(addr)
    ELSE FALSE

\* WalletBalanceAgent._validate_address_format(address, network)
WalletValidateAddressFormat(addr, net) ==
    IF Lower(net) = "hedera" THEN MatchHedera(addr)
    ELSE IF Lower(net) \in {"ethereum", "polygon"} THEN MatchEthereum(addr)
    ELSE FALSE

NoVerdicts == [a \in {} |-> FALSE]

\* The dictionaries transfer_hbar returns
TransferResult(success, error) == [success |-> success, error |-> error]

NoTransferResult == TransferResult(FALSE, "none")

AddrIdle ==
    /\ address = <<>>
    /\ network = ""
    /\ valid = NoVerdicts
    /\ tpc = "idle"
    /\ tres = NoTransferResult
    /\ submitted = {}

ValidateInit ==
    /\ address \in AccountStrings \cup EthereumStrings
    /\ network \in Networks
    /\ valid = NoVerdicts
    /\ tpc = "idle"
    /\ tres = NoTransferResult
    /\ submitted = {}

\* PaymentAgent's tool validate_payment_address(address, network)
ValidatePaymentAddress ==
    /\ "payment" \notin DOMAIN valid
    /\ valid' = Put(valid, "payment",
                    PaymentValidateAddressFormat(address, network))
    /\ UNCHANGED <<address, network, tpc, tres, submitted, notAddr>>

\* WalletBalanceAgent's tool validate_wallet_address(wallet_address, network)
ValidateWalletAddress ==
    /\ "wallet" \notin DOMAIN valid
    /\ valid' = Put(valid, "wallet",
                    WalletValidateAddressFormat(address, network))
    /\ UNCHANGED <<address, network, tpc, tres, submitted, notAddr>>

ValidateNext ==
    \/ ValidatePaymentAddress
    \/ ValidateWalletAddress

\* str.strip(): leading and trailing whitespace removed
RECURSIVE Strip(_)
Strip(s) ==
    IF s = <<>> THEN s
    ELSE IF s[1] \in Whitespace THEN Strip(Tail(s))
    ELSE IF s[Len(s)] \in Whitespace THEN Strip(SubSeq(s, 1, Len(s) - 1))
    ELSE s

\* The field s[from..] up to the next dot or the end, as the pair of its last
\* position and whether int() takes it
FieldEnd(s, from) ==
    IF \E i \in from..Len(s) : s[i] = "."
    THEN (CHOOSE i \in from..Len(s) :
              s[i] = "." /\ \A j \in from..(i - 1) : s[j] # ".") - 1
    ELSE Len(s)

IntField(s, from, to) == from <= to /\ AllIn(s, from, to, Digits)

\* AccountId.from_string(destination_account) of the Hedera SDK returns
\* rather than raises: the stripped string splits at its dots into three
\* fields and int() takes each
AccountIdFromString(s) ==
    LET t == Strip(s)
        a == FieldEnd(t, 1)
        b == FieldEnd(t, a + 2)
        c == FieldEnd(t, b + 2)
    IN  /\ a + 1 <= Len(t)
        /\ b + 1 <= Len(t)
        /\ c = Len(t)
        /\ IntField(t, 1, a)
        /\ IntField(t, a + 2, b)
        /\ IntField(t, b + 2, c)

TransferInit ==
    /\ address \in AccountStrings
    /\ network = "hedera"
    /\ valid = NoVerdicts
    /\ tpc = "idle"
    /\ tres = NoTransferResult
    /\ submitted = {}

\* _execute_hedera_transfer: the SDK is not installed or no client is
\* configured
TransferUnavailable ==
    /\ tpc = "idle"
    /\ tpc' = "done"
    /\ tres' = TransferResult(FALSE, "Hedera client not available")
    /\ UNCHANGED <<address, network, valid, submitted, notAddr>>

\* _execute_hedera_transfer: AccountId.from_string raises while the transfer
\* is built; the except clause turns it into a failure
TransferParseRaises ==
    /\ tpc = "idle"
    /\ ~AccountIdFromString(address)
    /\ tpc' = "done"
    /\ tres' = TransferResult(FALSE, "Invalid account ID string format")
    /\ UNCHANGED <<address, network, valid, submitted, notAddr>>

\* _execute_hedera_transfer: the transfer is built and
\* transaction.execute(self.hedera_client) is called
TransferExecute ==
    /\ tpc = "idle"
    /\ AccountIdFromString(address)
    /\ submitted' = submitted \cup {address}
    /\ tpc' = "executing"
    /\ UNCHANGED <<address, network, valid, tres, notAddr>>

\* transaction.execute returns a response
TransferSucceeds ==
    /\ tpc = "executing"
    /\ tpc' = "done"
    /\ tres' = TransferResult(TRUE, "none")
    /\ UNCHANGED <<address, network, valid, submitted, notAddr>>

\* transaction.execute raises; the except clause turns it into a failure
TransferFails ==
    /\ tpc = "executing"
    /\ tpc' = "done"
    /\ tres' = TransferResult(FALSE, "transaction failed")
    /\ UNCHANGED <<address, network, valid, submitted, notAddr>>

TransferNext ==
    \/ TransferUnavailable
    \/ TransferParseRaises
    \/ TransferExecute
    \/ TransferSucceeds
    \/ TransferFails

--------------------------------------------------------------------------
(* IoTCarbonAgent: _process_sensor_data and _process_heartbeat_data *)

MaxMessages == 3        \* MQTT messages handled after the initial state
MaxLenReadings == 100   \* deque(maxlen=100)

\* data.get('mac', 'unknown'): a message without a mac counts for "unknown"
DeviceMacs == {"aa:01", "unknown"}
CreditValues == {1, 2}
DeviceStatuses == {"online"}

\* The dictionary appended to recent_readings
Reading(mac, cr) == [device_mac |-> mac, carbon_credits |-> cr]

\* The dictionary stored in device_data; a heartbeat adds device_status
DeviceEntry(mac, cr) ==
    [device_mac |-> mac, carbon_credits |-> cr, device_status |-> "none"]

\* A deque that never evicts.
DequeAppendUnbounded(q, x) == Append(q, x)

\* deque.append on a deque with maxlen: a full deque drops its oldest entry
DequeAppend(q, x) ==
    IF Len(q) = MaxLenReadings THEN Append(Tail(q), x) ELSE Append(q, x)

\* The agent as constructed, and the agent after MaxLenReadings - 1 readings
\* of one device
IotInit ==
    /\ \E n \in {0, MaxLenReadings - 1} :
          /\ arrivals = [i \in 1..n |-> Reading("aa:01", 1)]
          /\ recent_readings = [i \in 1..n |-> Reading("aa:01", 1)]
          /\ device_data = IF n = 0 THEN [m \in {} |-> 0]
                           ELSE [m \in {"aa:01"} |-> DeviceEntry("aa:01", 1)]
    /\ arrived = 0

IotIdle ==
    /\ arrivals = <<>>
    /\ recent_readings = <<>>
    /\ device_data = [m \in {} |-> 0]
    /\ arrived = 0

\* _process_sensor_data(data): the values convert, device_data[device_mac] is
\* replaced and the reading is appended
SensorData ==
    /\ arrived < MaxMessages
    /\ arrived' = arrived + 1
    /\ \E mac \in DeviceMacs, cr \in CreditValues :
          /\ device_data' = Put(device_data, mac, DeviceEntry(mac, cr))
          /\ recent_readings' = DequeAppend(recent_readings, Reading(mac, cr))
          /\ arrivals' = Append(arrivals, Reading(mac, cr))
    /\ UNCHANGED notIot

\* _process_sensor_data(data): float(), int() or fromtimestamp raises on a
\* value of the message; the except clause logs it and nothing is stored
SensorDataMalformed ==
    /\ arrived < MaxMessages
    /\ arrived' = arrived + 1
    /\ UNCHANGED <<device_data, recent_readings, arrivals, notIot>>

\* _process_heartbeat_data(data): a known device gets its status fields set
Heartbeat ==
    /\ arrived < MaxMessages
    /\ arrived' = arrived + 1
    /\ \E mac \in DeviceMacs, st \in DeviceStatuses :
          device_data' =
              IF mac \in DOMAIN device_data
              THEN [device_data EXCEPT ![mac].device_status = st]
              ELSE device_data
    /\ UNCHANGED <<recent_readings, arrivals, notIot>>

IotNext ==
    \/ SensorData
    \/ SensorDataMalformed
    \/ Heartbeat

--------------------------------------------------------------------------
(* OrchestratorAgent: the connector registry *)

MaxCards == 3         \* agent cards discovered

CardNames == {"PaymentAgent", "CarbonCreditAgent"}
CardUrls == {"http://localhost:10002", "http://localhost:10003"}

\* AgentCard(name, url)
AgentCard(name, url) == [name |-> name, url |-> url]

AgentCards == {AgentCard(n, u) : n \in CardNames, u \in CardUrls}

CardLists == UNION {[1..n -> AgentCards] : n \in 0..MaxCards}

\* AgentConnector(card.name, card.url)
AgentConnector(name, url) == [name |-> name, base_url |-> url]

\* A python dict, as its (key, value) items in insertion order
EmptyDict == <<>>

Keys(d) == [i \in 1..Len(d) |-> d[i].key]

HasKey(d, k) == \E i \in 1..Len(d) : d[i].key = k

Lookup(d, k) == d[CHOOSE i \in 1..Len(d) : d[i].key = k].value

\* A dict that kept every item it was given.
DictSetAppends(d, k, v) == Append(d, [key |-> k, value |-> v])

\* d[k] = v: a key already there keeps its place and gets the new value
DictSet(d, k, v) ==
    IF HasKey(d, k)
    THEN [i \in 1..Len(d) |-> IF d[i].key = k THEN [key |-> k, value |-> v]
                              ELSE d[i]]
    ELSE Append(d, [key |-> k, value |-> v])

\* {card.name: AgentConnector(card.name, card.url) for card in agent_cards}
RECURSIVE BuildConnectors(_)
BuildConnectors(cards) ==
    IF cards = <<>> THEN EmptyDict
    ELSE LET card == cards[Len(cards)]
         IN  DictSet(BuildConnectors(SubSeq(cards, 1, Len(cards) - 1)),
                     card.name, AgentConnector(card.name, card.url))

NotBuilt == <<[key |-> "none", value |-> AgentConnector("none", "none")]>>

NoList == <<"none">>

NoConnector == AgentConnector("none", "none")

RegIdle ==
    /\ agent_cards = <<>>
    /\ connectors = NotBuilt
    /\ listed = NoList
    /\ routed = NoConnector

RegInit ==
    /\ agent_cards \in CardLists
    /\ connectors = NotBuilt
    /\ listed = NoList
    /\ routed = NoConnector

\* OrchestratorAgent.__init__(agent_cards)
OrchestratorInit ==
    /\ connectors = NotBuilt
    /\ connectors' = BuildConnectors(agent_cards)
    /\ UNCHANGED <<agent_cards, listed, routed, notReg>>

\* _list_agents()
ListAgents ==
    /\ connectors # NotBuilt
    /\ listed' = Keys(connectors)
    /\ UNCHANGED <<agent_cards, connectors, routed, notReg>>

\* _delegate_task(agent_name, ...): connector = self.connectors[agent_name]
RouteToAgent ==
    /\ connectors # NotBuilt
    /\ \E name \in CardNames :
          /\ HasKey(connectors, name)
          /\ routed' = Lookup(connectors, name)
    /\ UNCHANGED <<agent_cards, connectors, listed, notReg>>

RegNext ==
    \/ OrchestratorInit
    \/ ListAgents
    \/ RouteToAgent

--------------------------------------------------------------------------
(* PrebookingAgent._process_payment *)

\* What the POST to the payment agent comes to: an exception of httpx (a
\* timeout, a refused connection) or an answer
PostOutcomes == {"timeout", "connect_error", "answered"}

StatusCodes == {200, 404, 500}

\* The body of an answer: not JSON; JSON without "result"; a result without
\* "history"; an empty history; a last message without parts; a last message
\* whose first part has a text
Bodies ==
    {"not_json", "no_result", "no_history", "empty_history", "no_parts", "text"}

\* The texts a reply may carry, character by character
ReplyTexts ==
    {<<"c", "o", "m", "p", "l", "e", "t", "e", "d">>,
     <<"S", "u", "c", "c", "e", "s", "s">>,
     <<"S", "U", "C", "C", "E", "S", "S">>,
     <<"u", "n", "s", "u", "c", "c", "e", "s", "s", "f", "u", "l">>,
     <<"f", "a", "i", "l", "e", "d">>,
     <<>>}

Responses ==
    {[outcome |-> o, status |-> st, body |-> b, text |-> t] :
        o \in PostOutcomes, st \in StatusCodes, b \in Bodies, t \in ReplyTexts}

\* str.lower(), on the letters the texts have in upper case
LowerChar(c) ==
    CASE c = "S" -> "s"
      [] c = "U" -> "u"
      [] c = "C" -> "c"
      [] c = "E" -> "e"
      [] OTHER -> c

LowerText(s) == [i \in 1..Len(s) |-> LowerChar(s[i])]

\* word in s
Contains(s, word) ==
    \E i \in 1..(Len(s) - Len(word) + 1) :
        SubSeq(s, i, i + Len(word) - 1) = word

SuccessWord == <<"s", "u", "c", "c", "e", "s", "s">>

CompletedWord == <<"c", "o", "m", "p", "l", "e", "t", "e", "d">>

\* What _process_payment comes to: a dictionary, or an exception on its way
\* out of the try block
PayResult(success, error) ==
    [success |-> success, error |-> error, raised |-> FALSE]

Raising == [success |-> FALSE, error |-> "exception", raised |-> TRUE]

NoPayResult == PayResult(FALSE, "none")

\* The body of the try block
TryProcessPayment(resp) ==
    IF resp.outcome # "answered" THEN Raising
    ELSE IF resp.status # 200
    THEN PayResult(FALSE, "Payment agent not available")
    ELSE IF resp.body = "not_json" THEN Raising
    ELSE IF resp.body \in {"no_result", "no_history", "empty_history"}
    THEN PayResult(FALSE, "Payment agent not available")
    ELSE IF resp.body = "no_parts" THEN Raising
    ELSE IF \/ Contains(LowerText(resp.text), SuccessWord)
            \/ Contains(LowerText(resp.text), CompletedWord)
    THEN PayResult(TRUE, "none")
    ELSE PayResult(FALSE, "Payment failed")

\* A function without the except clause.
CatchNothing(r) == r

\* except Exception as e: return {"success": False, "error": str(e), ...}
CatchException(r) == IF r.raised THEN PayResult(FALSE, "str(e)") ELSE r

PayIdle ==
    /\ response = [outcome |-> "none", status |-> 0, body |-> "none",
                   text |-> <<>>]
    /\ payres = NoPayResult

PayInit ==
    /\ response \in Responses
    /\ payres = NoPayResult

\* _process_payment(company_name, amount_usd, prebooking_id)
ProcessPayment ==
    /\ payres = NoPayResult
    /\ payres' = CatchException(TryProcessPayment(response))
    /\ UNCHANGED <<response, notPay>>

PayNext == ProcessPayment

--------------------------------------------------------------------------
(* invoke: the session of a request is looked up and, if missing, created *)

MaxInvokers == 3     \* invoke coroutines running on the event loop
MaxSessionIds == 2   \* session ids the requests carry

Invokers == 1..MaxInvokers

SessionIds == 1..MaxSessionIds

\* An entry of the session service's store: no session, or a session and the
\* number of turns the runner has recorded in it
NoSession == [exists |-> FALSE, turns |-> 0]

\* create_session(..., state={}): a session with nothing in it
NewSession == [exists |-> TRUE, turns |-> 0]

NoInvoke == [session_id |-> 0, session |-> "unread"]

SessIdle ==
    /\ sessions = [sid \in SessionIds |-> NoSession]
    /\ created = [sid \in SessionIds |-> 0]
    /\ ipc = [h \in Invokers |-> "idle"]
    /\ iarg = [h \in Invokers |-> NoInvoke]

SessInit == SessIdle

\* if session is None
AfterGetSession(found) == IF found THEN "run" ELSE "create"

\* invoke(query, session_id), up to its first await
InvokeCall(h) ==
    /\ ipc[h] = "idle"
    /\ \E sid \in SessionIds :
          iarg' = [iarg EXCEPT ![h] = [session_id |-> sid, session |-> "unread"]]
    /\ ipc' = [ipc EXCEPT ![h] = "get"]
    /\ UNCHANGED <<sessions, created, notSess>>

\* session = await session_service.get_session(app_name, user_id, session_id)
InvokeGetSession(h) ==
    /\ ipc[h] = "get"
    /\ LET found == sessions[iarg[h].session_id].exists IN
          /\ iarg' = [iarg EXCEPT ![h].session =
                          IF found THEN "found" ELSE "none"]
          /\ ipc' = [ipc EXCEPT ![h] = AfterGetSession(found)]
    /\ UNCHANGED <<sessions, created, notSess>>

\* session = await session_service.create_session(..., state={})
InvokeCreateSession(h) ==
    /\ ipc[h] = "create"
    /\ sessions' = [sessions EXCEPT ![iarg[h].session_id] = NewSession]
    /\ created' = [created EXCEPT ![iarg[h].session_id] = @ + 1]
    /\ iarg' = [iarg EXCEPT ![h].session = "created"]
    /\ ipc' = [ipc EXCEPT ![h] = "run"]
    /\ UNCHANGED notSess

\* async for event in runner.run_async(...): the turn is recorded in the
\* stored session, and invoke returns
InvokeRunAsync(h) ==
    /\ ipc[h] = "run"
    /\ sessions' = [sessions EXCEPT ![iarg[h].session_id].turns = @ + 1]
    /\ ipc' = [ipc EXCEPT ![h] = "done"]
    /\ UNCHANGED <<created, iarg, notSess>>

SessNext ==
    \/ \E h \in Invokers : InvokeCall(h)
    \/ \E h \in Invokers : InvokeGetSession(h)
    \/ \E h \in Invokers : InvokeCreateSession(h)
    \/ \E h \in Invokers : InvokeRunAsync(h)

--------------------------------------------------------------------------
(* IoTCarbonAgent.get_live_sensor_data, run while the MQTT thread stores *)

NoLive ==
    [status |-> "none", total_credits |-> 0, active_devices |-> 0,
     devices |-> {}]

LiveIdle ==
    /\ lpc = "idle"
    /\ live = NoLive

RECURSIVE SumCredits(_)
\* sum(device["carbon_credits"] for device in devices)
SumCredits(devs) ==
    IF devs = {} THEN 0
    ELSE LET d == CHOOSE x \in devs : TRUE
         IN d.carbon_credits + SumCredits(devs \ {d})

\* device_data.values()
Values(d) == {d[m] : m \in DOMAIN d}

\* if not self.device_data: return {"status": "no_data", ...}
LiveCall ==
    /\ lpc = "idle"
    /\ IF DOMAIN device_data = {}
       THEN /\ live' = [NoLive EXCEPT !.status = "no_data"]
            /\ lpc' = "done"
       ELSE /\ live' = live
            /\ lpc' = "sum"
    /\ UNCHANGED <<iotVars, notLive>>

\* total_credits = sum(device["carbon_credits"] for device in
\*                     self.device_data.values())
LiveSum ==
    /\ lpc = "sum"
    /\ live' = [live EXCEPT !.total_credits = SumCredits(Values(device_data))]
    /\ lpc' = "len"
    /\ UNCHANGED <<iotVars, notLive>>

\* active_devices = len(self.device_data)
LiveLen ==
    /\ lpc = "len"
    /\ live' = [live EXCEPT !.active_devices = Cardinality(DOMAIN device_data)]
    /\ lpc' = "items"
    /\ UNCHANGED <<iotVars, notLive>>

\* for device_mac, data in self.device_data.items(): devices.append({...});
\* return {"status": "success", "summary": {...}, "devices": devices}
LiveItems ==
    /\ lpc = "items"
    /\ live' = [live EXCEPT !.devices = Values(device_data),
                            !.status = "success"]
    /\ lpc' = "done"
    /\ UNCHANGED <<iotVars, notLive>>

LiveNext ==
    \/ LiveCall
    \/ LiveSum
    \/ LiveLen
    \/ LiveItems

--------------------------------------------------------------------------
(* Specifications *)

ToolsIdle == AddrIdle /\ IotIdle /\ RegIdle /\ PayIdle /\ SessIdle /\ LiveIdle

MoreIdle == SessIdle /\ LiveIdle

ToolsIdleButSessions == AddrIdle /\ IotIdle /\ RegIdle /\ PayIdle /\ LiveIdle

CoreIdle == TaskIdle /\ BuyInit /\ PreInit /\ DelInit /\ DealIdle

InitTask == TaskInit /\ BuyInit /\ PreInit /\ DelInit /\ DealIdle /\ ToolsIdle

InitBuy == TaskIdle /\ BuyInit /\ PreInit /\ DelInit /\ DealIdle /\ ToolsIdle

InitPrebook == TaskIdle /\ BuyInit /\ PreInit /\ DelInit /\ DealIdle /\ ToolsIdle

InitDelegate == TaskIdle /\ BuyInit /\ PreInit /\ DelInit /\ DealIdle /\ ToolsIdle

InitDeal == TaskIdle /\ BuyInit /\ PreInit /\ DelInit /\ DealInit /\ ToolsIdle

InitValidate ==
    CoreIdle /\ ValidateInit /\ IotIdle /\ RegIdle /\ PayIdle /\ MoreIdle

InitTransfer ==
    CoreIdle /\ TransferInit /\ IotIdle /\ RegIdle /\ PayIdle /\ MoreIdle

InitIot ==
    CoreIdle /\ AddrIdle /\ IotInit /\ RegIdle /\ PayIdle /\ MoreIdle

InitRegistry ==
    CoreIdle /\ AddrIdle /\ IotIdle /\ RegInit /\ PayIdle /\ MoreIdle

InitProcessPayment ==
    CoreIdle /\ AddrIdle /\ IotIdle /\ RegIdle /\ PayInit /\ MoreIdle

SpecTask == InitTask /\ [][TaskNext]_vars

SpecBuy == InitBuy /\ [][BuyNext]_vars

SpecPrebook == InitPrebook /\ [][PreNext]_vars

SpecDelegate == InitDelegate /\ [][DelNext]_vars

SpecDeal == InitDeal /\ [][DealNext]_vars

SpecValidate == InitValidate /\ [][ValidateNext]_vars

SpecTransfer == InitTransfer /\ [][TransferNext]_vars

SpecIot == InitIot /\ [][IotNext]_vars

SpecRegistry == InitRegistry /\ [][RegNext]_vars

SpecProcessPayment == InitProcessPayment /\ [][PayNext]_vars

InitSession == CoreIdle /\ ToolsIdleButSessions /\ SessInit

SpecSession == InitSession /\ [][SessNext]_vars

InitLive ==
    CoreIdle /\ AddrIdle /\ IotInit /\ RegIdle /\ PayIdle /\ SessIdle /\ LiveIdle

\* The MQTT thread and the event loop's thread run side by side
LiveAndIotNext == IotNext \/ LiveNext

SpecLive == InitLive /\ [][LiveAndIotNext]_vars

--------------------------------------------------------------------------
(* Properties of the task managers, checked under SpecTask *)

Last(h) == h[Len(h)]

Count(h, role) == Cardinality({i \in 1..Len(h) : h[i].role = role})

Ended(r) == pc[r] \in {"returned", "raised"}

InCritical(r) == pc[r] \in {"upsert_cs", "complete_cs"}

Suspended(r) == pc[r] \in {"invoke", "delegate"}

UpsertStep(r) == pc[r] = "upsert_cs" /\ pc'[r] = "invoke"

\* C1: every request that on_send_task has finished handling, by returning or
\* by raising, left its task COMPLETED with an agent reply in the history; no
\* request path leaves the task SUBMITTED.
C1_EveryRequestPathCompletes ==
    \A r \in Handlers :
        Ended(r) =>
            /\ req[r].id \in DOMAIN tasks
            /\ tasks[req[r].id].status = "COMPLETED"
            /\ Count(tasks[req[r].id].history, "agent") >= 1

\* C6: once a task is COMPLETED no later step changes its status or its
\* history, a second request with the same id included.
C6_NoMutationAfterCompleted ==
    [][\A id \in DOMAIN tasks :
          tasks[id].status = "COMPLETED" => tasks'[id] = tasks[id]]_vars

\* C7: a COMPLETED task's history is the original user message followed by
\* exactly one agent message: completion is performed once per task id.
C7_CompletedOnce ==
    \A id \in DOMAIN tasks :
        tasks[id].status = "COMPLETED" =>
            /\ tasks[id].history[1].role = "user"
            /\ Count(tasks[id].history, "agent") = 1
            /\ Len(tasks[id].history) = 2

C9_CompletionAtomic ==
    /\ Cardinality({r \in Handlers : InCritical(r)}) <= 1
    /\ \A id \in DOMAIN tasks :
          tasks[id].status = "COMPLETED" =>
              Last(tasks[id].history).role = "agent"

\* C10: a handler suspended in agent.invoke or in a delegation never holds the
\* task-manager lock, so any other handler waiting for the lock can take it as
\* soon as no handler is inside a section.
C10_LockNotHeldAcrossExternalCall ==
    /\ \A r \in Handlers : Suspended(r) => lock # r
    /\ \A r \in Handlers : lock = r => InCritical(r)
    /\ (\A r \in Handlers : ~InCritical(r)) => lock = 0

\* C10 witness: a task submitted later is COMPLETED while an earlier request,
\* for another id, is still suspended in its external call.
C10_CompletedOutOfOrder ==
    \E r1, r2 \in Handlers :
        /\ req[r1].n < req[r2].n
        /\ req[r1].n > 0
        /\ req[r1].id # req[r2].id
        /\ Suspended(r1)
        /\ pc[r2] = "returned"
        /\ tasks[req[r1].id].status = "SUBMITTED"
        /\ tasks[req[r2].id].status = "COMPLETED"

--------------------------------------------------------------------------
(* Properties of buy_carbon_credits and purchase_credits, under SpecBuy *)

RECURSIVE SumAmounts(_)
SumAmounts(rows) ==
    IF rows = {} THEN 0
    ELSE LET row == CHOOSE x \in rows : TRUE
         IN row.amount + SumAmounts(rows \ {row})

\* What in a returned dictionary tells the caller that funds have moved: the
\* payment's transaction id, or the success message.
ShowsFundsMoved(res) ==
    res.transaction_id # NoTx \/ res.message = "Successfully purchased"

ShowsRecordingFailed(res) == res.message = "Database recording failed"

PaidButNotRecorded(b) ==
    /\ bpc[b] = "done"
    /\ barg[b].mode = "buy"
    /\ barg[b].pay.success
    /\ bres[b].status = "failed"

\* C2: when the payment succeeded and recording the purchase failed, the
\* result of buy_carbon_credits shows both that funds moved and that the
\* recording failed.
C2_PartialFailureVisible ==
    \A b \in Buyers :
        PaidButNotRecorded(b) =>
            ShowsFundsMoved(bres[b]) /\ ShowsRecordingFailed(bres[b])

\* C3: under any interleaving of purchase_credits calls the company's
\* current_credit never drops below zero and the credits recorded as purchased
\* never exceed the credit available before the calls.
C3_NoOversell ==
    /\ credit[Company].current >= 0
    /\ SumAmounts(purchases) <= InitCredit

--------------------------------------------------------------------------
(* Properties of create_prebooking and approve_prebooking, under SpecPrebook *)

ThresholdCents == AutoApprovalThreshold * 100

\* The record objects a step creates
Created == (Len(records) + 1)..Len(records')

\* The payment calls made for record object i before a step
PaymentsBefore(i) == IF i <= Len(records) THEN calls[i].payments ELSE 0

\* The approve_prebooking calls in progress for record object i before a step
ApprovalsBefore(i) == IF i <= Len(records) THEN calls[i].approve ELSE 0

\* C4: for a prebooking whose prepayment is at or above the auto-approval
\* threshold, every step that makes a payment call for it is a step of an
\* approve_prebooking call for it; creating the record makes no payment call.
C4_NoPaymentBeforeApproval ==
    [][\A i \in 1..Len(records') :
          records'[i].prepayment >= ThresholdCents =>
              /\ calls'[i].payments > PaymentsBefore(i) =>
                     calls'[i].approve > ApprovalsBefore(i)
              /\ i \in Created =>
                     calls'[i].payments = 0 /\ calls'[i].auto = 0]_vars

\* C4 witness: a prebooking at or above the threshold was approved and paid.
C4_PaidAfterApproval ==
    \E i \in 1..Len(records) :
        /\ records[i].prepayment >= ThresholdCents
        /\ calls[i].payments >= 1
        /\ records[i].status = "confirmed"

\* C5: create_prebooking for a registered company stores a confirmed record
\* and calls _process_payment at once exactly when the prepayment is strictly
\* less than 300 dollars; otherwise it stores a pending_approval record and
\* makes no payment call.
C5_ThresholdGate ==
    [][\A i \in Created :
          /\ records'[i].prepayment < ThresholdCents <=>
                 (/\ records'[i].status = "confirmed"
                  /\ calls'[i].auto = 1
                  /\ calls'[i].payments = 1)
          /\ records'[i].prepayment >= ThresholdCents <=>
                 (/\ records'[i].status = "pending_approval"
                  /\ calls'[i].auto = 0
                  /\ calls'[i].payments = 0)]_vars

\* C5 witness: 5 credits (47.50) took the auto-approval path and a prepayment
\* of exactly 300.00 went to pending_approval.
C5_BothSidesOfThreshold ==
    /\ \E i \in 1..Len(records) :
          /\ records[i].prepayment = 4750
          /\ records[i].status = "confirmed"
          /\ calls[i].payments = 1
    /\ \E i \in 1..Len(records) :
          /\ records[i].prepayment = ThresholdCents
          /\ records[i].status = "pending_approval"
          /\ calls[i].payments = 0

--------------------------------------------------------------------------
(* Properties of _delegate_task, under SpecDelegate *)

\* The calls of session s that have passed the session step
Delegated(s) == {d \in Delegations : dpc[d] # "idle" /\ darg[d].session = s
                                       /\ darg[d].agent \in Connectors}

\* The session ids the connectors were given by calls of session s
IdsSent(s) == {m.session_id : m \in {x \in sent : darg[x.call].session = s}}

\* C11: the first _delegate_task call of a session stores a generated id in
\* the session state, a stored id never changes, and every call of the
\* session sends the stored id to the agent it targets.
C11_SessionIdStable ==
    [][/\ \A s \in Sessions :
             sstate[s] # NoSessionId => sstate'[s] = sstate[s]
       /\ \A m \in sent' :
             /\ sstate'[darg'[m.call].session] # NoSessionId
             /\ m.session_id = sstate'[darg'[m.call].session]]_vars

\* C11 witness: a call of a session has returned and a later call of the
\* same session, to another agent, has sent the id the first one stored.
C11_LaterCallReusesId ==
    \E d1, d2 \in Delegations :
        /\ darg[d1].session = darg[d2].session
        /\ darg[d1].agent \in Connectors
        /\ darg[d2].agent \in Connectors
        /\ darg[d1].agent # darg[d2].agent
        /\ dpc[d1] = "returned"
        /\ dpc[d2] = "sending"
        /\ darg[d1].session_id = darg[d2].session_id
        /\ darg[d1].session_id = sstate[darg[d1].session]
        /\ sstate[darg[d1].session] # NoSessionId

\* C12: with _delegate_task calls of one session in progress together, the
\* session state holds either nothing or one generated id, one id is
\* generated per session that has delegated, and the calls of a session all
\* send the same id.
C12_NoLostSessionUpdate ==
    /\ \A s \in Sessions : sstate[s] \in 0..uuids
    /\ uuids = Cardinality({s \in Sessions : Delegated(s) # {}})
    /\ \A s \in Sessions :
          /\ Cardinality(IdsSent(s)) <= 1
          /\ Delegated(s) # {} => IdsSent(s) = {sstate[s]}

\* C12 witness: two calls of one session are suspended in send_task at the
\* same time, and both sent the one id generated for the session.
C12_ConcurrentCallsShareId ==
    \E d1, d2 \in Delegations :
        /\ d1 # d2
        /\ darg[d1].session = darg[d2].session
        /\ dpc[d1] = "sending"
        /\ dpc[d2] = "sending"
        /\ darg[d1].session_id = darg[d2].session_id
        /\ darg[d1].session_id # NoSessionId

\* C13: a _delegate_task call to a registered agent never ends by raising:
\* when send_task fails the call hands its caller a delegation failure.
C13_SendFailureSurfacesAsResult ==
    \A d \in Delegations :
        darg[d].agent \in Connectors => dres[d].kind # "raised"

\* C14: a _delegate_task call with an unregistered agent name calls no
\* connector and returns a failure result; it does not raise.
C14_UnknownAgentIsResult ==
    \A d \in Delegations :
        (dpc[d] # "idle" /\ darg[d].agent \notin Connectors) =>
            /\ \A m \in sent : m.call # d
            /\ dpc[d] = "returned"
            /\ dres[d].kind # "raised"

--------------------------------------------------------------------------
(* Further properties of buy_carbon_credits and purchase_credits, under
   SpecBuy *)

InPurchase(b) == bpc[b] \in {"select", "update", "insert"}

AllCallsEnded == \A b \in Buyers : bpc[b] \in {"idle", "done"}

\* C15: in buy_carbon_credits, purchase_credits is started only from the
\* payment step and only with a successful payment result, whose transfer has
\* been executed; the purchase row carries that payment's transaction id.
C15_RecordOnlyAfterPayment ==
    [][\A b \in Buyers :
          barg'[b].mode = "buy" =>
              /\ (bpc'[b] = "select" /\ bpc[b] # "select") => bpc[b] = "pay"
              /\ bpc'[b] \in {"select", "update", "insert"} =>
                     /\ barg'[b].pay.success
                     /\ barg'[b].pay.transaction_id \in transfers'
              /\ \A row \in purchases' :
                     row.by = b =>
                         /\ row.payment_tx_id = barg'[b].pay.transaction_id
                         /\ row.payment_tx_id \in transfers']_vars

\* C15 witness: one purchase was recorded with its payment's transaction id
\* and another call ended at a failed payment without touching the ledger.
C15_RecordedWithTxId ==
    \E b1, b2 \in Buyers :
        /\ barg[b1].mode = "buy"
        /\ bres[b1].status = "success"
        /\ \E row \in purchases :
              row.by = b1 /\ row.payment_tx_id = bres[b1].transaction_id
                          /\ row.payment_tx_id # NoTx
        /\ barg[b2].mode = "buy"
        /\ bres[b2].message = "Payment failed"
        /\ \A row \in purchases : row.by # b2

\* C18: a purchase_credits call that finds no company_credit row, or less
\* current_credit than the amount, returns failure with the matching message
\* and changes neither the credits nor the purchase rows; and a call returns
\* these failures in no other case.
C18_RejectedPurchaseChangesNothing ==
    [][\A b \in Buyers :
          (bpc[b] = "select" /\ bpc'[b] # "select" /\ barg[b].mode = "direct"
                             /\ bres'[b].status # "raised") =>
              IF barg[b].company \notin DOMAIN credit
              THEN /\ bres'[b] = Returned(FALSE, "Company credit not found")
                   /\ bpc'[b] = "done"
                   /\ credit' = credit /\ purchases' = purchases
              ELSE IF credit[barg[b].company].current < barg[b].amount
              THEN /\ bres'[b] = Returned(FALSE, "Insufficient company credit")
                   /\ bpc'[b] = "done"
                   /\ credit' = credit /\ purchases' = purchases
              ELSE bpc'[b] = "update"]_vars

\* C18 witness: a direct caller asked for more than the current_credit left by
\* an earlier purchase and was refused; the credits are those the earlier
\* purchase left.
C18_InsufficientRejected ==
    \E b1, b2 \in Buyers :
        /\ bres[b1] = Returned(FALSE, "Insufficient company credit")
        /\ barg[b1].amount > credit[Company].current
        /\ bres[b2] = Returned(TRUE, "Purchase recorded")
        /\ credit[Company].current = InitCredit - barg[b2].amount
        /\ SumAmounts(purchases) = barg[b2].amount

\* C19: once every purchase_credits call has ended, by returning or by
\* raising, the credits taken from the company are the credits of the
\* purchase rows recorded: a call decremented iff it recorded its row.
C19_DecrementIffRecorded ==
    AllCallsEnded =>
        /\ InitCredit - credit[Company].current = SumAmounts(purchases)
        /\ credit[Company].sold = SumAmounts(purchases)

--------------------------------------------------------------------------
(* Further properties of the prebooking records and of the prebooking task
   manager *)

\* The status a record object is stored with when it is created
CreatedStatus(rec) ==
    IF rec.prepayment < ThresholdCents THEN "confirmed" ELSE "pending_approval"

TerminalStatuses == {"payment_failed", "cancelled"}

\* C16 (under SpecPrebook): a record's status is changed at most once after
\* creation, so every change starts from the status it was created with, and
\* a record that is payment_failed or cancelled keeps that status.
C16_StatusChangesOnce ==
    [][\A i \in 1..Len(records) :
          records'[i].status # records[i].status =>
              /\ records[i].status = CreatedStatus(records[i])
              /\ records[i].status \notin TerminalStatuses]_vars

\* C17 (under SpecTask): in the prebooking task manager no exception leaves
\* on_send_task, an overload error of the oracle included: the handler ends
\* with the task COMPLETED and the last history entry the agent's apology.
C17_OverloadEndsCompleted ==
    kind = "prebooking" =>
        \A r \in Handlers :
            /\ pc[r] # "raised"
            /\ pc[r] = "returned" =>
                   /\ tasks[req[r].id].status = "COMPLETED"
                   /\ reply[r] \in {"answer", "error_text", "overloaded_text"}

--------------------------------------------------------------------------
(* Properties of _calculate_best_deal, under SpecDeal *)

RECURSIVE SumSeq(_)
SumSeq(ns) == IF ns = <<>> THEN 0 ELSE ns[1] + SumSeq(Tail(ns))

\* The credits the priced offers hold at a price of at most p
AvailableUpTo(p) ==
    SumSeq([i \in 1..Len(offers) |->
              IF offers[i].offer_price # NoPrice /\ offers[i].offer_price <= p
              THEN offers[i].current_credit ELSE 0])

\* The credits the deal takes at a price of at most p
AllocatedUpTo(p) ==
    SumSeq([i \in 1..Len(deal.best_offers) |->
              IF deal.best_offers[i].offer_price <= p
              THEN deal.best_offers[i].credits_to_purchase ELSE 0])

AllocationCost ==
    SumSeq([i \in 1..Len(deal.best_offers) |->
              deal.best_offers[i].credits_to_purchase
                * deal.best_offers[i].offer_price])

\* C20: the deal uses the offers in ascending order of price and fills each
\* to min(remaining, current_credit): up to every price p it takes
\* min(requested, credit available at a price of at most p); so the credits
\* taken in all are min(requested, credit of the priced offers), and
\* total_cost is the sum of credits x price.  Offers (10, 40) and (12, 100)
\* with 60 requested give 40 and 20 at a total cost of 640.
C20_GreedyByPrice ==
    dealpc = "done" =>
        LET b == deal.best_offers
        IN /\ \A i, j \in 1..Len(b) :
                 i < j => b[i].offer_price <= b[j].offer_price
           /\ \A i \in 1..Len(b) :
                 /\ b[i].credits_to_purchase > 0
                 /\ b[i].credits_to_purchase <= b[i].current_credit
                 /\ b[i].total_cost = b[i].credits_to_purchase * b[i].offer_price
           /\ \A p \in OfferPrices \ {NoPrice} :
                 AllocatedUpTo(p) = Min(requested, AvailableUpTo(p))
           /\ deal.total_credits_found = AllocatedUpTo(12)
           /\ deal.total_credits_found = Min(requested, AvailableUpTo(12))
           /\ deal.total_cost = AllocationCost
           /\ (offers = <<Offer(10, 40), Offer(12, 100)>> /\ requested = 60) =>
                  /\ Len(b) = 2
                  /\ b[1].credits_to_purchase = 40
                  /\ b[2].credits_to_purchase = 20
                  /\ deal.total_cost = 640

\* C20 witness: the dearer offer came first in the list, and the deal still
\* takes 40 at 10 and 20 at 12 for 640.
C20_CheapestFirst ==
    /\ dealpc = "done"
    /\ offers = <<Offer(12, 100), Offer(10, 40)>>
    /\ requested = 60
    /\ Len(deal.best_offers) = 2
    /\ deal.best_offers[1].offer_price = 10
    /\ deal.best_offers[1].credits_to_purchase = 40
    /\ deal.best_offers[2].credits_to_purchase = 20
    /\ deal.total_cost = 640

--------------------------------------------------------------------------
(* Properties of _validate_address_format, under SpecValidate *)

\* Three non-empty strings of digits with a dot between them, and no more
ThreeDigitFields(s) ==
    \E p \in 2..Len(s), q \in 4..Len(s) :
        /\ p + 1 < q
        /\ q < Len(s)
        /\ s[p] = "."
        /\ s[q] = "."
        /\ AllIn(s, 1, p - 1, Digits)
        /\ AllIn(s, p + 1, q - 1, Digits)
        /\ AllIn(s, q + 1, Len(s), Digits)

\* "0x" and then exactly HexLen hexadecimal characters
HexAddress(s) ==
    /\ Len(s) = HexLen + 2
    /\ s[1] = "0"
    /\ s[2] = "x"
    /\ AllIn(s, 3, Len(s), HexChars)

WellFormed(addr, net) ==
    \/ Lower(net) = "hedera" /\ ThreeDigitFields(addr)
    \/ Lower(net) \in {"ethereum", "polygon"} /\ HexAddress(addr)

\* C21: _validate_address_format returns true exactly when the network, in
\* lower case, is hedera and the address is three dot-separated non-empty
\* digit strings, or the network is ethereum or polygon and the address is
\* "0x" and exactly 40 hexadecimal characters; the validators of the two
\* agents return the same.
C21_ValidExactlyWhenWellFormed ==
    /\ \A a \in DOMAIN valid : valid[a] = WellFormed(address, network)
    /\ \A a \in DOMAIN valid, b \in DOMAIN valid : valid[a] = valid[b]

--------------------------------------------------------------------------
(* Properties of transfer_hbar, under SpecTransfer *)

\* C22: a destination that does not match the Hedera pattern is never given
\* to the Hedera client, and the call for it returns a failure.
C22_MalformedNeverSubmitted ==
    /\ \A dest \in submitted : PaymentValidateAddressFormat(dest, "hedera")
    /\ (tpc = "done" /\ ~PaymentValidateAddressFormat(address, "hedera"))
          => ~tres.success

--------------------------------------------------------------------------
(* Properties of the IoT agent's stores, under SpecIot *)

\* The last n entries of s
LastN(s, n) == IF Len(s) <= n THEN s ELSE SubSeq(s, Len(s) - n + 1, Len(s))

\* The macs of the readings stored so far
SeenMacs == {arrivals[i].device_mac : i \in 1..Len(arrivals)}

\* The latest reading of a device
LatestOf(mac) ==
    arrivals[CHOOSE i \in 1..Len(arrivals) :
                 /\ arrivals[i].device_mac = mac
                 /\ \A j \in (i + 1)..Len(arrivals) :
                       arrivals[j].device_mac # mac]

\* C23: recent_readings holds at most 100 entries, which are the most recent
\* readings in arrival order, and device_data maps each device seen so far to
\* the values of its latest reading.
C23_BoundedRecentAndLatest ==
    /\ Len(recent_readings) <= MaxLenReadings
    /\ recent_readings = LastN(arrivals, MaxLenReadings)
    /\ DOMAIN device_data = SeenMacs
    /\ \A mac \in DOMAIN device_data :
          /\ device_data[mac].device_mac = mac
          /\ device_data[mac].carbon_credits = LatestOf(mac).carbon_credits

\* C23 witness: more readings have arrived than the deque holds, and the
\* device's latest reading differs from its earlier ones.
C23_OldestEvicted ==
    /\ Len(arrivals) > MaxLenReadings
    /\ "aa:01" \in DOMAIN device_data
    /\ device_data["aa:01"].carbon_credits = 2
    /\ arrivals[1].carbon_credits = 1

--------------------------------------------------------------------------
(* Properties of the connector registry, under SpecRegistry *)

\* The names on the discovered cards
DiscoveredNames == {agent_cards[i].name : i \in 1..Len(agent_cards)}

\* The last discovered card with a name
LastCardNamed(name) ==
    agent_cards[CHOOSE i \in 1..Len(agent_cards) :
                    /\ agent_cards[i].name = name
                    /\ \A j \in (i + 1)..Len(agent_cards) :
                          agent_cards[j].name # name]

\* No entry of a sequence occurs twice
NoRepeats(s) == \A i \in 1..Len(s), j \in 1..Len(s) : s[i] = s[j] => i = j

\* C24: the registry holds one connector per distinct card name, the one of
\* the last card with that name; requests for a name go to that card's
\* address, and _list_agents returns each name once.
C24_OneConnectorPerName ==
    connectors # NotBuilt =>
        /\ NoRepeats(Keys(connectors))
        /\ {connectors[i].key : i \in 1..Len(connectors)} = DiscoveredNames
        /\ \A name \in DiscoveredNames :
              Lookup(connectors, name).base_url = LastCardNamed(name).url
        /\ listed # NoList =>
              /\ NoRepeats(listed)
              /\ {listed[i] : i \in 1..Len(listed)} = DiscoveredNames
        /\ routed # NoConnector =>
              routed.base_url = LastCardNamed(routed.name).url

\* C24 witness: two cards share a name and differ in their address; the name
\* has been listed and a request for it routed.
C24_DuplicateNameRouted ==
    /\ \E i \in 1..Len(agent_cards), j \in 1..Len(agent_cards) :
          /\ i < j
          /\ agent_cards[i].name = agent_cards[j].name
          /\ agent_cards[i].url # agent_cards[j].url
          /\ routed.name = agent_cards[i].name
          /\ routed.base_url # agent_cards[i].url
    /\ listed # NoList

--------------------------------------------------------------------------
(* Properties of buy_carbon_credits' results, under SpecBuy *)

\* The row purchase_credits inserted for a call
RowsOf(b) == {row \in purchases : row.by = b}

\* C25: the transaction id recorded with the purchase and returned in the
\* success result is the payment result's transaction id when it has one, and
\* the memo otherwise.
C25_TxIdIsPaymentIdElseMemo ==
    \A b \in Buyers :
        bres[b].status = "success" =>
            LET expected ==
                    IF barg[b].pay.transaction_id # NoTx
                    THEN barg[b].pay.transaction_id
                    ELSE Memo(barg[b].company, barg[b].amount)
            IN  /\ bres[b].transaction_id = expected
                /\ RowsOf(b) # {}
                /\ \A row \in RowsOf(b) : row.payment_tx_id = expected

\* C25 witness: a purchase has succeeded, and its result and its row carry
\* the id of the transfer made for it.
C25_SuccessCarriesTransferId ==
    \E b \in Buyers :
        /\ bres[b].status = "success"
        /\ bres[b].transaction_id = HederaTxId(b)
        /\ HederaTxId(b) \in transfers
        /\ \E row \in RowsOf(b) : row.payment_tx_id = HederaTxId(b)

\* The results of a company resolution that found nothing or raised
NoCompanyMessages == {"No company found", "Could not get company details"}

\* C26: a call whose company resolution finds no company, or raises, returns a
\* failed result straight from step 1: it was not yet paying or recording,
\* it is over, and no transfer, balance or purchase row has changed.
C26_NoCompanyEndsBeforePayment ==
    [][\A b \in Buyers :
          /\ (bres'[b] # bres[b] /\ bres'[b].message \in NoCompanyMessages) =>
                /\ bpc[b] = "idle"
                /\ bpc'[b] = "done"
                /\ bres'[b].status = "failed"
                /\ barg'[b].pay = NoPayment
                /\ UNCHANGED <<credit, purchases, transfers>>
          /\ bpc[b] = "done" => (bpc'[b] = "done" /\ bres'[b] = bres[b])]_vars

\* C26 witness: one call has ended with "No company found" and another with
\* "Could not get company details".
C26_BothRejectionsSeen ==
    \E b1 \in Buyers, b2 \in Buyers :
        /\ bpc[b1] = "done"
        /\ bres[b1].message = "No company found"
        /\ bpc[b2] = "done"
        /\ bres[b2].message = "Could not get company details"
        /\ transfers = {}
        /\ purchases = {}

\* The buy_carbon_credits calls that have returned
BuyEnded(b) == barg[b].mode = "buy" /\ bpc[b] = "done"

\* C29: buy_carbon_credits returns status success exactly when the company
\* was resolved, the payment returned success and purchase_credits recorded
\* the purchase; every other call returns status failed, and none ends in an
\* exception.
C29_SuccessIffAllStepsSucceeded ==
    \A b \in Buyers :
        BuyEnded(b) =>
            /\ bres[b].status \in {"success", "failed"}
            /\ bres[b].status = "success" <=>
                  /\ barg[b].company \in DOMAIN credit
                  /\ barg[b].pay.success
                  /\ RowsOf(b) # {}

\* C29 witness: one call has succeeded, and another has failed after its
\* payment succeeded.
C29_SuccessAndLateFailure ==
    \E b1 \in Buyers, b2 \in Buyers :
        /\ BuyEnded(b1)
        /\ bres[b1].status = "success"
        /\ BuyEnded(b2)
        /\ bres[b2].status = "failed"
        /\ barg[b2].pay.success

--------------------------------------------------------------------------
(* Properties of the rejected prebooking calls, under SpecPrebook *)

CompanyCheckMessages == {CompanyCheckMessage(answer) : answer \in CheckAnswers}

RejectedApprovals == {"Prebooking not found", "Prebooking not pending approval"}

\* C30: approve_prebooking on an id that is not stored, or on a record that is
\* not pending approval, returns a failure and leaves the records, the map and
\* the payment calls as they were; approve_prebooking starts a payment only
\* for a record that is pending approval.
C30_RejectedApprovalChangesNothing ==
    [][/\ (last' # last /\ last'.error \in RejectedApprovals) =>
              /\ ~last'.success
              /\ UNCHANGED <<records, prebookings, calls>>
       /\ \A i \in 1..Len(calls) :
              calls'[i].approve > calls[i].approve =>
                  records[i].status = "pending_approval"]_vars

\* C30 witness: approve_prebooking was rejected for a record that is stored
\* and confirmed.
C30_ApprovalOfConfirmedRejected ==
    /\ last = Outcome("approve", FALSE, "none", "Prebooking not pending approval")
    /\ \E i \in 1..Len(records) : records[i].status = "confirmed"

--------------------------------------------------------------------------
(* Properties of _process_payment, under SpecProcessPayment *)

\* The payment agent answered 200 with a reply that has a text
AnsweredWithText ==
    /\ response.outcome = "answered"
    /\ response.status = 200
    /\ response.body = "text"

\* _process_payment has returned or raised
PaymentProcessed == payres # NoPayResult

\* C28: _process_payment never raises; a non-200 answer, an answer without
\* result or history, a malformed body, a timeout or another exception give
\* success = False; success = True is returned only for a 200 answer whose
\* reply text contains "success" or "completed".
C28_SuccessOnlyOnSuccessText ==
    PaymentProcessed =>
        /\ ~payres.raised
        /\ ~AnsweredWithText => ~payres.success
        /\ payres.success =>
              \/ Contains(response.text, SuccessWord)
              \/ Contains(response.text, CompletedWord)

\* C28, amended: as above, with the reply text compared in lower case.
C28_SuccessOnlyOnSuccessTextAnyCase ==
    PaymentProcessed =>
        /\ ~payres.raised
        /\ ~AnsweredWithText => ~payres.success
        /\ payres.success =>
              \/ Contains(LowerText(response.text), SuccessWord)
              \/ Contains(LowerText(response.text), CompletedWord)

\* C28 witness: success was returned for a reply in upper case.
C28_UpperCaseReplySucceeds ==
    /\ PaymentProcessed
    /\ payres.success
    /\ AnsweredWithText
    /\ response.text = <<"S", "U", "C", "C", "E", "S", "S">>

--------------------------------------------------------------------------
(* Further properties of the prebooking records, under SpecPrebook *)

\* C31: for any prebooking at most one payment is ever attempted: two
\* concurrent approvals of one pending record do not both reach
\* _process_payment.
C31_AtMostOnePaymentPerPrebooking ==
    \A i \in 1..Len(calls) : calls[i].payments <= 1

\* The payment calls made for a record that have returned
PaymentsReturned(i) == calls[i].payments - calls[i].auto - calls[i].approve

\* C32: a record has status confirmed only if a payment for it has completed
\* successfully, also while a payment call is in flight.  A payment that has
\* completed has returned, so a confirmed record has a returned payment call.
C32_ConfirmedOnlyAfterPayment ==
    \A i \in 1..Len(records) :
        records[i].status = "confirmed" => PaymentsReturned(i) > 0

\* C33: every create_prebooking call that passes the company check stores its
\* record under an id no stored record has: the prebookings map has as many
\* entries as there were such calls, and each record made is still the one
\* stored under its id.
C33_EveryBookingKeepsItsOwnId ==
    /\ Cardinality(DOMAIN prebookings) = Len(records)
    /\ \A i \in 1..Len(records) : prebookings[records[i].id] = i

--------------------------------------------------------------------------
(* Properties of invoke's session lookup, checked under SpecSession *)

--------------------------------------------------------------------------
(* Properties of get_live_sensor_data, checked under SpecLive *)

\* C36: what get_live_sensor_data returns is a consistent snapshot even
\* while the MQTT thread stores sensor messages: the active_devices count is
\* the number of devices listed and total_credits is the sum over exactly
\* the listed devices.
C36_LiveDataIsOneSnapshot ==
    (lpc = "done" /\ live.status = "success") =>
        /\ live.active_devices = Cardinality(live.devices)
        /\ live.total_credits = SumCredits(live.devices)

--------------------------------------------------------------------------
(* The company's credits across purchase_credits calls, under SpecBuy *)

\* C35: for every company current_credit + sold_credit stays what it was
\* before the calls, whatever their order and interleaving: the credits
\* change only in the UPDATE of a call, which moves exactly that call's
\* amount from current_credit to sold_credit; a call that returns success
\* has made that move, and a call returns failure only from the checks after
\* the SELECT, with the credits untouched.
C35_CreditSumConserved ==
    /\ [](\A c \in DOMAIN credit :
              credit[c].current + credit[c].sold = InitCredit)
    /\ [][/\ \A c \in DOMAIN credit :
                \/ credit'[c] = credit[c]
                \/ \E b \in Buyers :
                      /\ bpc[b] = "update" /\ bpc'[b] = "insert"
                      /\ barg[b].company = c
                      /\ credit'[c].current = credit[c].current - barg[b].amount
                      /\ credit'[c].sold = credit[c].sold + barg[b].amount
          /\ \A b \in Buyers :
                (barg[b].mode = "direct" /\ bres'[b] # bres[b]) =>
                    /\ credit' = credit
                    /\ bres'[b].status = "True" => bpc[b] = "insert"
                    /\ bres'[b].status = "False" => bpc[b] = "select"]_vars

\* C35 witness: two direct calls have ended, one returned success and the
\* other failure, and the credits sold are the amount of the successful one.
C35_OneMovedOneRefused ==
    \E b1, b2 \in Buyers :
        /\ barg[b1].mode = "direct" /\ barg[b2].mode = "direct"
        /\ bres[b1] = Returned(TRUE, "Purchase recorded")
        /\ bres[b2].status = "False"
        /\ credit[Company].sold = barg[b1].amount
        /\ credit[Company].current = InitCredit - barg[b1].amount

--------------------------------------------------------------------------
(* Further properties of _calculate_best_deal, under SpecDeal *)

\* The offers of the list that carry a price
PricedIndexes == {j \in 1..Len(offers) : offers[j].offer_price # NoPrice}

RECURSIVE CreditOnOffer(_)
CreditOnOffer(js) ==
    IF js = {} THEN 0
    ELSE LET j == CHOOSE x \in js : TRUE
         IN offers[j].current_credit + CreditOnOffer(js \ {j})

RECURSIVE CreditsToPurchase(_, _)
CreditsToPurchase(b, n) ==
    IF n = 0 THEN 0 ELSE b[n].credits_to_purchase + CreditsToPurchase(b, n - 1)

\* C37: the deal takes nothing from an offer without a price, takes from an
\* offer no more than its current_credit and in all no more than the credits
\* requested, and its status is "failed" exactly when the offer list is
\* empty; for a list with offers it is "success" exactly when the credits
\* found are at least four fifths of the credits requested, and "partial"
\* otherwise.
C37_AllocationWithinOffersAndStatus ==
    dealpc = "done" =>
        LET b == deal.best_offers
            found == deal.total_credits_found
        IN /\ \A i \in 1..Len(b) :
                 /\ b[i].offer_price # NoPrice
                 /\ b[i].credits_to_purchase <= b[i].current_credit
                 /\ \E j \in PricedIndexes :
                       offers[j] = Offer(b[i].offer_price, b[i].current_credit)
           /\ Len(b) <= Cardinality(PricedIndexes)
           /\ found = CreditsToPurchase(b, Len(b))
           /\ found <= CreditOnOffer(PricedIndexes)
           /\ found <= requested
           /\ deal.status = "failed" <=> offers = <<>>
           /\ offers # <<>> =>
                 /\ deal.status = "success" <=> 5 * found >= 4 * requested
                 /\ deal.status = "partial" <=> 5 * found < 4 * requested

\* C37 witness: an offer without a price had credits and none were taken from
\* it; the priced offer gave 40 of the 50 requested, which is four fifths and
\* a success, and 40 of 60 in another call was partial.
C37_UnpricedSkippedAtFourFifths ==
    /\ dealpc = "done"
    /\ offers = <<Offer(NoPrice, 100), Offer(10, 40)>>
    /\ deal.total_credits_found = 40
    /\ \/ requested = 50 /\ deal.status = "success"
       \/ requested = 60 /\ deal.status = "partial"

--------------------------------------------------------------------------
(* What _delegate_task returns, under SpecDelegate *)

\* C38: _delegate_task returns the text of the last entry of the child
\* task's history when that history has more than one entry, and the empty
\* string when the child task has no history, an empty one, or only the
\* delegated user message: the delegated message is never returned as the
\* child's reply.
C38_ReplyIsLastOfLongerHistory ==
    \A d \in Delegations :
        dpc[d] = "returned" =>
            /\ dres[d].kind = "text"
            /\ (child[d].given /\ Len(child[d].entries) >= 2) =>
                  dres[d].value = child[d].entries[Len(child[d].entries)]
            /\ (~child[d].given \/ Len(child[d].entries) < 2) =>
                  dres[d].value = ""
            /\ dres[d].value # "message"

\* C38 witness: one call got a history of three entries and returned the
\* third; another got the delegated message alone and returned "".
C38_LastOfThreeAndMessageAlone ==
    \E d1, d2 \in Delegations :
        /\ dpc[d1] = "returned" /\ dpc[d2] = "returned"
        /\ Len(child[d1].entries) = 3
        /\ dres[d1].value = "reply"
        /\ child[d2] = History(<<"message">>)
        /\ dres[d2].value = ""

==========================================================================
